---------------------------- MODULE Spec2Model ----------------------------
(***************************************************************************)
(* Model of the PAdES signature emulation: key custody (PIN-derived AES    *)
(* key, CBC encryption of the private key), the PDF sign / verify          *)
(* protocol, and the USB monitor thread with the GUI session it feeds.     *)
(*                                                                         *)
(* Library primitives are modelled by their contract:                      *)
(*   os.urandom      a draw from a pool, never repeating an earlier draw   *)
(*   pbkdf2_hmac     a deterministic 32-byte mix of (pin bytes, salt)      *)
(*   AES-CBC         a keyed, invertible bytewise chaining transformation  *)
(*                   (addition mod 256 stands for XOR and the permutation) *)
(*   SHA-256         a fixed-length collision-free encoding of the input   *)
(*   RSA-PSS         verify accepts exactly the signatures sign can make   *)
(*                   for that digest under the matching private key        *)
(***************************************************************************)
EXTENDS Integers, Sequences, FiniteSets, TLC

\* ------------------------------------------------------------------ bounds
MaxKeyLen == 17      \* longest raw plaintext handed to encrypt_private_key
NRand     == 4       \* size of the os.urandom pool
NKeys     == 2       \* RSA key pairs in play
MaxPages  == 2       \* pages of an input document
NVolumes  == 2       \* removable volumes that can come and go
MaxEnvChanges == 2   \* mounts and unmounts the environment performs
MaxStarts == 2       \* calls of start_monitoring
MaxSigns  == 1       \* signing calls a PDF file has been through

\* ------------------------------------------------------- program constants
SaltLen    == 16     \* os.urandom(16) for the salt
IvLen      == 16     \* os.urandom(16) for the IV
BlockSize  == 16     \* AES block size used by the padding
DkLen      == 32     \* derived key length of pbkdf2_hmac
Iterations == 100000 \* pbkdf2 iteration count

\* ------------------------------------------------------------ byte helpers
Byte == 0..255

Min(a, b) == IF a < b THEN a ELSE b
Max(a, b) == IF a > b THEN a ELSE b

\* Python s[lo:hi] for 0 <= lo, 0 <= hi (clamped to the length).
PySlice(s, lo, hi) == SubSeq(s, lo + 1, Min(hi, Len(s)))

\* Python s[lo:]
PyFrom(s, lo) == SubSeq(s, lo + 1, Len(s))

\* Python s[:-p] for p >= 0.  -0 is 0, so s[:-0] is s[:0], the empty string.
PyDropLast(s, p) == IF p = 0 THEN << >> ELSE SubSeq(s, 1, Max(0, Len(s) - p))

\* bytes([b]) * n
Repeat(b, n) == [i \in 1..n |-> b]

Digits == <<"0", "1", "2", "3", "4", "5", "6", "7", "8", "9">>

IndexOf(c, s) == CHOOSE i \in 1..Len(s) : s[i] = c

\* str.encode() of a PIN: one ASCII byte per character.
Ord(c) == IF \E i \in 1..Len(Digits) : Digits[i] = c
          THEN 47 + IndexOf(c, Digits)
          ELSE 97

Encode(str) == [i \in 1..Len(str) |-> Ord(str[i])]

RECURSIVE SumSeq(_)
SumSeq(s) == IF s = << >> THEN 0 ELSE s[1] * Len(s) + SumSeq(Tail(s))

\* ------------------------------------------------------------ key custody
Pin1 == <<"1", "2", "3", "4", "5", "6">>
Pin2 == <<"6", "5", "4", "3", "2", "1">>
Pins == {Pin1, Pin2}

\* PINs a caller may pass: two that pass the policy of generate_keys, one too
\* short, one with a letter.
ShortPin  == <<"1", "2", "3">>
LetterPin == <<"1", "2", "3", "4", "5", "a">>
TypedPins == Pins \cup {ShortPin, LetterPin}

\* len(pin) >= 6 and pin.isdigit()
PinPolicy(pin) ==
    Len(pin) >= 6 /\ \A i \in 1..Len(pin) : \E d \in 1..Len(Digits) : pin[i] = Digits[d]

\* os.urandom(16): the pool of 16-byte values a call may return.
RandAt(r) == [i \in 1..SaltLen |-> (r * 17 + i) % 256]
RandPool  == {RandAt(r) : r \in 1..NRand}

\* hashlib.pbkdf2_hmac('sha256', pin.encode(), salt, 100000, 32)
pbkdf2_hmac(password, salt, iterations, dklen) ==
    LET mix == (SumSeq(password) * 7 + SumSeq(salt) * 3 + iterations) % 251
    IN  [i \in 1..dklen |-> (mix + i) % 256]

\* key_generator/crypto.py derive_key_from_pin(pin, salt): (key, salt)
KG_derive_key_from_pin(pin, salt) ==
    <<pbkdf2_hmac(Encode(pin), salt, Iterations, DkLen), salt>>

\* signature_app/crypto.py derive_key_from_pin(pin, salt): key
SA_derive_key_from_pin(pin, salt) ==
    pbkdf2_hmac(Encode(pin), salt, Iterations, DkLen)

\* The byte the keyed block transformation adds; it stands for AES under key.
KeyShift(key) == (2 * key[1] + key[2]) % 256

\* encryptor.update(data) + encryptor.finalize() in CBC mode.
CbcEncrypt(key, iv, data) ==
    LET n == Len(data)
        c[i \in 1..n] ==
            (data[i] + (IF i <= BlockSize THEN iv[i] ELSE c[i - BlockSize])
                     + KeyShift(key)) % 256
    IN  [i \in 1..n |-> c[i]]

\* decryptor.update(data) + decryptor.finalize() in CBC mode (length checked
\* by the caller model below).
CbcDecrypt(key, iv, data) ==
    [i \in 1..Len(data) |->
        (data[i] + 512 - (IF i <= BlockSize THEN iv[i] ELSE data[i - BlockSize])
                 - KeyShift(key)) % 256]

\* padding_length = 16 - (len(private_key_pem) % 16), the buggy variant a
\* careless rewrite would produce: no padding block on exact multiples.
PaddingLengthNoFullBlock(n) == (BlockSize - (n % BlockSize)) % BlockSize

\* padding_length = 16 - (len(private_key_pem) % 16)
PaddingLength(n) == BlockSize - (n % BlockSize)

\* encrypt_private_key writing the IV before the salt: another layout.
encrypt_private_key_iv_first(private_key_pem, pin, salt, iv) ==
    LET key     == KG_derive_key_from_pin(pin, salt)[1]
        plen    == PaddingLength(Len(private_key_pem))
        padded  == private_key_pem \o Repeat(plen, plen)
    IN  iv \o salt \o CbcEncrypt(key, iv, padded)

\* encrypt_private_key(private_key_pem, pin) with the two os.urandom draws
\* made explicit.
encrypt_private_key(private_key_pem, pin, salt, iv) ==
    LET key     == KG_derive_key_from_pin(pin, salt)[1]
        plen    == PaddingLength(Len(private_key_pem))
        padded  == private_key_pem \o Repeat(plen, plen)
    IN  salt \o iv \o CbcEncrypt(key, iv, padded)

Ok(v)     == [ok |-> TRUE, value |-> v]
Raise(e)  == [ok |-> FALSE, exc |-> e]

\* decrypt_private_key(encrypted_data, pin): the bytes returned, or the
\* exception that escapes.
decrypt_private_key(encrypted_data, pin) ==
    LET salt          == PySlice(encrypted_data, 0, 16)
        iv            == PySlice(encrypted_data, 16, 32)
        encrypted_key == PyFrom(encrypted_data, 32)
        key           == SA_derive_key_from_pin(pin, salt)
    IN  IF Len(iv) # IvLen
        THEN Raise("ValueError")      \* modes.CBC(iv): invalid IV size
        ELSE IF Len(encrypted_key) % BlockSize # 0
        THEN Raise("ValueError")      \* finalize(): not a multiple of the block length
        ELSE IF encrypted_key = << >>
        THEN Raise("IndexError")      \* padded_data[-1] of b""
        ELSE LET padded_data    == CbcDecrypt(key, iv, encrypted_key)
                 padding_length == padded_data[Len(padded_data)]
             IN  Ok(PyDropLast(padded_data, padding_length))


\* ------------------------------------------------------------- RSA / SHA
KeySizeBits == 4096                 \* rsa.generate_private_key(key_size=4096)
SigLen      == KeySizeBits \div 8   \* length of an RSA signature in bytes
DigestLen   == 32                   \* SHA-256 digest size

KeyIds   == 1..NKeys
PssSalts == 1..2                    \* the randomness PSS padding draws

\* private_bytes(PEM, PKCS8, NoEncryption) of key pair k
PrivPem(k) == <<45, 45, 45, 45, 45, 66, 69, 71, 73, 78, 32, k, 10,
                45, 45, 45, 45, 45, 69, 78, 68>>

\* public_bytes(PEM, SubjectPublicKeyInfo) of key pair k
PubPem(k) == <<45, 45, 45, 45, 45, 80, 85, 66, 32, k, 10>>

\* generate_rsa_keypair(): (private_pem, public_pem)
generate_rsa_keypair(k) == <<PrivPem(k), PubPem(k)>>

\* serialization.load_pem_private_key(private_key_pem, password=None)
load_pem_private_key(pem) ==
    IF \E k \in KeyIds : pem = PrivPem(k)
    THEN Ok(CHOOSE k \in KeyIds : pem = PrivPem(k))
    ELSE Raise("ValueError")

\* serialization.load_pem_public_key(public_key_pem)
load_pem_public_key(pem) ==
    IF \E k \in KeyIds : pem = PubPem(k)
    THEN Ok(CHOOSE k \in KeyIds : pem = PubPem(k))
    ELSE Raise("ValueError")

\* hashlib.sha256(m).digest(): fixed length, collision free on the inputs met
\* (3 is invertible mod 256, so equal digests mean equal inputs up to 31 bytes).
Sha256(m) ==
    [i \in 1..DigestLen |->
        IF i = 1 THEN Len(m) % 256
        ELSE IF i - 1 <= Len(m) THEN (m[i - 1] * 3 + i) % 256
        ELSE i]

\* private_key.sign(data, PSS(MGF1(SHA256), MAX_LENGTH), SHA256)
RsaPssSign(k, data, pss) ==
    [i \in 1..SigLen |->
        IF i = 1 THEN k
        ELSE IF i = 2 THEN pss
        ELSE IF i <= 2 + Len(data) THEN data[i - 2]
        ELSE (i * 5 + k) % 256]

\* public_key.verify(signature, data, PSS(...), SHA256): no exception
RsaPssVerify(k, signature, data) ==
    \E pss \in PssSalts : signature = RsaPssSign(k, data, pss)

\* sign_data(data, private_key_pem)
sign_data(data, private_key_pem, pss) ==
    LET private_key == load_pem_private_key(private_key_pem)
    IN  IF ~private_key.ok
        THEN Raise("ValueError")
        ELSE Ok(RsaPssSign(private_key.value, data, pss))

\* verify_signature(data, signature, public_key_pem): bool
verify_signature(data, signature, public_key_pem) ==
    LET public_key == load_pem_public_key(public_key_pem)
    IN  IF ~public_key.ok
        THEN FALSE
        ELSE RsaPssVerify(public_key.value, signature, data)

\* ------------------------------------------------------------ text helpers
HexDigits == <<"0", "1", "2", "3", "4", "5", "6", "7", "8", "9",
               "a", "b", "c", "d", "e", "f">>
HexSet    == {HexDigits[i] : i \in 1..Len(HexDigits)}

Whitespace == {" ", "\n", "\t"}

\* bytes.hex()
Hex(bytes) ==
    [i \in 1..(2 * Len(bytes)) |->
        LET b == bytes[(i + 1) \div 2]
        IN  HexDigits[(IF i % 2 = 1 THEN b \div 16 ELSE b % 16) + 1]]

\* bytes.fromhex(s): ValueError on a non-hex character or an odd count.
FromHex(str) ==
    LET s == SelectSeq(str, LAMBDA c : c \notin Whitespace)
    IN  IF (\E i \in 1..Len(s) : s[i] \notin HexSet) \/ Len(s) % 2 # 0
        THEN Raise("ValueError")
        ELSE Ok([i \in 1..(Len(s) \div 2) |->
                   (IndexOf(s[2 * i - 1], HexDigits) - 1) * 16
                 + (IndexOf(s[2 * i], HexDigits) - 1)])

RECURSIVE FirstInk(_, _)
\* index of the first non-whitespace character at or after i (Len + 1: none)
FirstInk(str, i) ==
    IF i > Len(str) \/ str[i] \notin Whitespace THEN i ELSE FirstInk(str, i + 1)

RECURSIVE LastInk(_, _)
\* index of the last non-whitespace character at or before i (0: none)
LastInk(str, i) ==
    IF i < 1 \/ str[i] \notin Whitespace THEN i ELSE LastInk(str, i - 1)

\* str.strip()
Strip(str) == SubSeq(str, FirstInk(str, 1), LastInk(str, Len(str)))

\* positions of token tok in str
Positions(str, tok) == {i \in 1..Len(str) : str[i] = tok}

MinOf(S) == CHOOSE i \in S : \A j \in S : i <= j

\* str.split(sep)[n] for n = 1: the text between the first and the second sep
\* (the caller checked that sep occurs).
SplitSecond(str, sep) ==
    LET first == MinOf(Positions(str, sep))
        rest  == SubSeq(str, first + 1, Len(str))
        nxt   == Positions(rest, sep)
    IN  IF nxt = {} THEN rest ELSE SubSeq(rest, 1, MinOf(nxt) - 1)

\* str.split('\n')
RECURSIVE SplitLines(_)
SplitLines(str) ==
    LET nl == Positions(str, "\n")
    IN  IF nl = {} THEN <<str>>
        ELSE <<SubSeq(str, 1, MinOf(nl) - 1)>>
             \o SplitLines(SubSeq(str, MinOf(nl) + 1, Len(str)))

\* UTF-8 bytes of one character token of extracted text.
Utf8Char(c) ==
    CASE c = "a"      -> <<97>>
      [] c = "b"      -> <<98>>
      [] c = "U+00E9" -> <<195, 169>>
      [] c = "\n"     -> <<10>>
      [] c = " "      -> <<32>>
      [] c \in HexSet -> <<IF IndexOf(c, HexDigits) <= 10
                           THEN 47 + IndexOf(c, HexDigits)
                           ELSE 86 + IndexOf(c, HexDigits)>>
      [] OTHER        -> <<35>>     \* a fixed label of the signature page

RECURSIVE Utf8(_)
\* str.encode('utf-8')
Utf8(str) == IF str = << >> THEN << >> ELSE Utf8Char(str[1]) \o Utf8(Tail(str))


\* ------------------------------------------------------------ PDF documents
\* A PDF file as PyPDF2 shows it: pages and the document information
\* dictionary.  A page carries the text extract_text() returns, its other
\* content (images, drawings, fonts: whatever extract_text() does not return),
\* and the /Author entry of its /Resources, if any.  meta is None for a file
\* without an information dictionary, else Some(dictionary).
\* Optional values (Python None): << >> is None, <<x>> is x.
None    == << >>
Some(x) == <<x>>

VisLimit   == 256           \* min(len(signature_hex), 256)
LineLength == 64            \* line_length = 64

Marker        == "SIGNATURE:"
SigValueLabel == "Signature Value (Visualization):"

Page(text, other) == [text |-> text, other |-> other, resAuthor |-> None]

\* hashlib.sha256() updated with extract_text().encode('utf-8') of each of the
\* first n pages: the digest of the concatenation.
RECURSIVE PagesText(_, _)
PagesText(pages, n) ==
    IF n = 0 THEN << >> ELSE PagesText(pages, n - 1) \o Utf8(pages[n].text)

\* The bytes the document hash covers (sign_pdf 39-44, verify 243-255).
HashedContent(pages, n) == PagesText(pages, n)

\* for i in range(0, min(len(signature_hex), 256), line_length): one text
\* line per step, each followed by a line break.
RECURSIVE VisLines(_, _)
VisLines(signature_hex, i) ==
    IF i >= Min(Len(signature_hex), VisLimit) THEN << >>
    ELSE PySlice(signature_hex, i, i + LineLength) \o <<"\n">>
         \o VisLines(signature_hex, i + LineLength)

\* create_signature_page(signature): the one-page PDF reportlab writes.
create_signature_page(signature) ==
    LET signature_hex == Hex(signature)
    IN  [pages |-> << [text |-> <<"Digital Signature", "\n",
                                  "This document has been digitally signed.", "\n",
                                  "Signature Algorithm: RSA-SHA256", "\n",
                                  "Signature Hash: ">>
                                \o PySlice(Hex(Sha256(signature)), 0, 16)
                                \o <<"\n", SigValueLabel, "\n">>
                                \o VisLines(signature_hex, 0),
                       other |-> 0,
                       resAuthor |-> None] >>,
         meta  |-> Some([k \in {"/Author"} |-> <<Marker>> \o signature_hex])]

\* sign_pdf 36-51: the digest of the document and its signature, or the
\* exception sign_data raises.
sign_pdf_signature(input, private_key_pem, pss) ==
    LET n        == Len(input.pages)
        pdf_hash == Sha256(HashedContent(input.pages, n))
    IN  sign_data(pdf_hash, private_key_pem, pss)

\* sign_pdf with the signature page added before the pages of the input
\* (never applied).
sign_pdf_page_first(input, input_basename, private_key_pem, pss) ==
    LET signature == sign_pdf_signature(input, private_key_pem, pss)
    IN  IF ~signature.ok
        THEN Raise(signature.exc)
        ELSE Ok([pages |-> <<create_signature_page(signature.value).pages[1]>>
                           \o input.pages,
                 meta  |-> Some([k \in {"/PAdES-Signature", "/SignatureDate",
                                        "/SignatureType", "/Author"} |->
                               CASE k = "/PAdES-Signature" -> <<"True">>
                                 [] k = "/SignatureDate"   -> <<input_basename>>
                                 [] k = "/SignatureType"   -> <<"RSA-SHA256">>
                                 [] k = "/Author" ->
                                        <<Marker>> \o Hex(signature.value)])])

\* sign_pdf(input_path, output_path, private_key_pem): what is written to
\* output_path, or the exception that escapes before anything is written.
sign_pdf(input, input_basename, private_key_pem, pss) ==
    LET signature == sign_pdf_signature(input, private_key_pem, pss)
    IN  IF ~signature.ok
        THEN Raise(signature.exc)
        ELSE LET signature_page == create_signature_page(signature.value).pages[1]
                 metadata == [k \in {"/PAdES-Signature", "/SignatureDate",
                                     "/SignatureType", "/Author"} |->
                               CASE k = "/PAdES-Signature" -> <<"True">>
                                 [] k = "/SignatureDate"   -> <<input_basename>>
                                 [] k = "/SignatureType"   -> <<"RSA-SHA256">>
                                 [] k = "/Author" ->
                                        <<Marker>> \o Hex(signature.value)]
             IN  Ok([pages |-> input.pages \o <<signature_page>>,
                     meta  |-> Some(metadata)])

\* all(c.isalnum() for c in line.strip())
AllAlnum(line) ==
    \A i \in 1..Len(line) : line[i] \in HexSet \cup {"a", "b", "U+00E9"}

\* "Signature Value" in line
HasSigValue(line) == \E i \in 1..Len(line) : line[i] = SigValueLabel

\* The loop of verify_pdf_signature 213-224 over lines[i..].
RECURSIVE CaptureLines(_, _, _, _)
CaptureLines(lines, i, capturing, acc) ==
    IF i > Len(lines) THEN acc
    ELSE LET line == lines[i]
         IN  IF HasSigValue(line)
             THEN CaptureLines(lines, i + 1, TRUE, acc)
             ELSE IF capturing /\ Strip(line) # << >> /\ AllAlnum(Strip(line))
             THEN CaptureLines(lines, i + 1, capturing, acc \o Strip(line))
             ELSE IF capturing /\ Strip(line) # << >>
             THEN acc
             ELSE CaptureLines(lines, i + 1, capturing, acc)

\* Steps 1 and 2 of the signature lookup (164-189): the page-level /Author,
\* then the document /Author.  << >> stands for None and for "".
SignatureFromMetadata(pdf) ==
    LET last  == pdf.pages[Len(pdf.pages)]
        meta  == pdf.meta[1]
        step1 == IF last.resAuthor # None /\ Positions(last.resAuthor[1], Marker) # {}
                 THEN Strip(SplitSecond(last.resAuthor[1], Marker))
                 ELSE << >>
    IN  IF step1 # << >> THEN step1
        ELSE IF "/Author" \in DOMAIN meta /\ Positions(meta["/Author"], Marker) # {}
        THEN Strip(SplitSecond(meta["/Author"], Marker))
        ELSE << >>

\* Step 3 (191-224): the text of the last page.
SignatureFromText(pdf) ==
    LET text  == pdf.pages[Len(pdf.pages)].text
        start == Positions(text, SigValueLabel)
    IN  IF start = {}
        THEN Raise("ValueError: Signature value not found in the document")
        ELSE Ok(CaptureLines(SplitLines(SubSeq(text, MinOf(start), Len(text))),
                             1, FALSE, << >>))

\* Lines 232-279: hex decoding, the digest over all pages but the last, the
\* cryptographic check.  Every exception inside is re-raised as ValueError.
VerifyExtracted(pdf, signature_hex, public_key_pem) ==
    LET signature   == FromHex(signature_hex)
        total_pages == Len(pdf.pages)
        pdf_hash    == Sha256(HashedContent(pdf.pages, total_pages - 1))
    IN  IF ~signature.ok
        THEN Raise("ValueError: Failed to verify signature")
        ELSE Ok(verify_signature(pdf_hash, signature.value, public_key_pem))

\* verify_pdf_signature(pdf_path, public_key_pem): the bool returned, or the
\* exception raised.
verify_pdf_signature(pdf, public_key_pem) ==
    IF pdf.meta = None
    THEN Raise("TypeError")          \* '/PAdES-Signature' not in None
    ELSE IF "/PAdES-Signature" \notin DOMAIN pdf.meta[1]
    THEN Raise("ValueError: This PDF does not contain a PAdES signature")
    ELSE IF Len(pdf.pages) < 2
    THEN Raise("ValueError: Invalid signed PDF format")
    ELSE LET fromMeta == SignatureFromMetadata(pdf)
         IN  IF fromMeta # << >>
             THEN VerifyExtracted(pdf, fromMeta, public_key_pem)
             ELSE LET fromText == SignatureFromText(pdf)
                  IN  IF ~fromText.ok THEN fromText
                      ELSE IF fromText.value = << >>
                      THEN Raise("ValueError: Could not extract signature from the document")
                      ELSE VerifyExtracted(pdf, fromText.value, public_key_pem)


\* ====================================================== state of the model
VARIABLES
    \* key custody harness: two encrypt calls, then decrypt calls
    c_pc, c_key, c_pin, c_used, c_blob1, c_blob2, c_dpin, c_damage,
    c_res1, c_res2,
    \* sign / verify harness: sign a document, alter the artifact, verify it
    p_pc, p_doc, p_priv, p_art, p_tamper, p_pub, p_result,
    \* the environment of the signature application
    mounted,            \* volumes the OS reports as removable drives
    keyfile,            \* content of private_key.enc on each volume, or None
    outfile,            \* the sign_pdf call whose output is at the output path, or None
    envChanges,         \* mounts and unmounts so far
    \* USBDetector (signature_app/usb_detector.py)
    running,            \* self.running
    connected_drives,   \* self.connected_drives
    current_drives,     \* current_drives of the cycle in flight
    m_pc,               \* where the monitor thread is
    queue,              \* signals emitted and not yet delivered to the GUI thread
    starts,             \* calls of start_monitoring so far
    \* SignatureAppWindow (signature_app/gui.py)
    current_usb_path, encrypted_key_data, private_key,
    g_pc,               \* where the GUI thread is
    sd_pin, sd_key,     \* pin and private_key of the sign_document call in flight
    \* history
    sinceDisc,          \* a disconnect was handled and no connect since
    lastSign,           \* what the latest sign_document call did
    stopped,            \* stop_monitoring has returned and no start since
    lateEvents,         \* a signal was emitted while stopped
    cycles,             \* the latest two poll cycles that saw a topology change
    \* files and the programs around them
    fs,                 \* the file system: path -> content, for the files that exist
    usb_path,           \* KeyGeneratorWindow.usb_path
    kg_pin, kg_key,     \* PIN and key pair of the latest private_key.enc generate_keys wrote
    kg_last,            \* the latest generate_keys call that passed the checks: files written
    kg_env,             \* the stick is attached; the public key directory can be written
    pdf_path_field,           \* text of SignatureAppWindow.pdf_path_field
    output_path_field,        \* text of SignatureAppWindow.output_path_field
    f_before,           \* content of the input file when sign_pdf was last called
    f_result,           \* how the latest sign_pdf call ended
    ds_private_key,     \* DocumentSigner.private_key
    ds_result,          \* how the latest DocumentSigner call ended
    \* USBDetector as a sequential object, on each platform
    d_system,           \* self.system
    d_volumes,          \* the volumes attached to the machine
    d_fault,            \* the failure the OS answers the next call with
    d_pc,               \* the monitor thread: constructed, running, stopped, dead
    d_connected_drives, \* self.connected_drives
    d_last,             \* the latest announcement or poll cycle
    d_open,             \* connect events per volume since it last left the snapshot
    d_changes, d_starts \* plug / unplug events and start_monitoring calls so far

cvars == <<c_pc, c_key, c_pin, c_used, c_blob1, c_blob2, c_dpin, c_damage,
           c_res1, c_res2>>
pvars == <<p_pc, p_doc, p_priv, p_art, p_tamper, p_pub, p_result>>
evars == <<mounted, keyfile, outfile, envChanges>>
mvars == <<running, connected_drives, current_drives, m_pc, queue, starts>>
gvars == <<current_usb_path, encrypted_key_data, private_key, g_pc, sd_pin, sd_key>>
hvars == <<sinceDisc, lastSign, stopped, lateEvents, cycles>>
avars == <<evars, mvars, gvars, hvars>>
xvars == <<fs, usb_path, kg_pin, kg_key, kg_last, kg_env, pdf_path_field, output_path_field, f_before, f_result,
           ds_private_key, ds_result>>
dvars == <<d_system, d_volumes, d_fault, d_pc, d_connected_drives, d_last, d_open,
           d_changes, d_starts>>
vars  == <<cvars, pvars, avars, xvars, dvars>>

\* ------------------------------------------------- key custody: harness
\* Plaintexts handed to encrypt_private_key: the PEM of each key pair and a
\* byte string of every length up to MaxKeyLen.
RawKey(n) == [i \in 1..n |-> (i * 7 + 3) % 256]
KeyInputs == {PrivPem(k) : k \in KeyIds} \cup {RawKey(n) : n \in 0..MaxKeyLen}

\* What can happen to private_key.enc between writing and reading.
Damages == {"none", "truncated", "header only", "no ciphertext"}
Damaged(blob, d) ==
    CASE d = "none"          -> blob
      [] d = "truncated"     -> SubSeq(blob, 1, Len(blob) - 1)
      [] d = "header only"   -> PySlice(blob, 0, 20)
      [] d = "no ciphertext" -> PySlice(blob, 0, 32)

CInit ==
    /\ c_pc = "start"
    /\ c_key = << >>
    /\ c_pin = << >>
    /\ c_used = {}
    /\ c_blob1 = << >>
    /\ c_blob2 = << >>
    /\ c_dpin = << >>
    /\ c_damage = "none"
    /\ c_res1 = Raise("not called")
    /\ c_res2 = Raise("not called")

\* encrypt_private_key(private_key_pem, pin), first call.
CryptoEncrypt ==
    /\ c_pc = "start"
    /\ \E key \in KeyInputs, pin \in TypedPins :
       \E salt \in RandPool \ c_used :
       \E iv \in RandPool \ (c_used \cup {salt}) :
          /\ c_key' = key
          /\ c_pin' = pin
          /\ c_used' = c_used \cup {salt, iv}
          /\ c_blob1' = encrypt_private_key(key, pin, salt, iv)
    /\ c_pc' = "one"
    /\ UNCHANGED <<c_blob2, c_dpin, c_damage, c_res1, c_res2, pvars, avars, xvars, dvars>>

\* encrypt_private_key called again with the same key and PIN.
CryptoEncryptAgain ==
    /\ c_pc = "one"
    /\ \E salt \in RandPool \ c_used :
       \E iv \in RandPool \ (c_used \cup {salt}) :
          /\ c_used' = c_used \cup {salt, iv}
          /\ c_blob2' = encrypt_private_key(c_key, c_pin, salt, iv)
    /\ c_pc' = "two"
    /\ UNCHANGED <<c_key, c_pin, c_blob1, c_dpin, c_damage, c_res1, c_res2, pvars, avars, xvars, dvars>>

\* decrypt_private_key(blob, pin) on each of the two blobs.
CryptoDecrypt ==
    /\ c_pc = "two"
    /\ \E pin \in TypedPins, d \in Damages :
          /\ c_dpin' = pin
          /\ c_damage' = d
          /\ c_res1' = decrypt_private_key(Damaged(c_blob1, d), pin)
          /\ c_res2' = decrypt_private_key(Damaged(c_blob2, d), pin)
    /\ c_pc' = "dec"
    /\ UNCHANGED <<c_key, c_pin, c_used, c_blob1, c_blob2, pvars, avars, xvars, dvars>>

CNext == CryptoEncrypt \/ CryptoEncryptAgain \/ CryptoDecrypt


\* ------------------------------------------------- sign / verify: harness
\* Extracted text of a page of an input document.
Texts == {<< >>, <<"a">>, <<"b", "U+00E9">>}

\* Input documents: 0..MaxPages pages (PdfReader reads a PDF whose page tree
\* is empty), no information dictionary of their own.
DocsOfLen(n) == {[pages |-> ps, meta |-> None] :
                    ps \in [1..n -> {Page(t, 0) : t \in Texts}]}
Docs == UNION {DocsOfLen(n) : n \in 0..MaxPages}

\* Public keys offered to the verifier: each pair's, and a file that is no PEM.
PubInputs == {PubPem(k) : k \in KeyIds} \cup {<<0>>}

PInit ==
    /\ p_pc = "start"
    /\ p_doc = [pages |-> << >>, meta |-> None]
    /\ p_priv = 0
    /\ p_art = None
    /\ p_tamper = "none"
    /\ p_pub = << >>
    /\ p_result = Raise("not called")

\* sign_pdf(input_path, output_path, private_key_pem) with a well-formed key.
PdfSign ==
    /\ p_pc = "start"
    /\ \E doc \in Docs, k \in KeyIds, pss \in PssSalts :
          /\ p_doc' = doc
          /\ p_priv' = k
          /\ p_art' = Some(sign_pdf(doc, "doc.pdf", PrivPem(k), pss).value)
    /\ p_pc' = "signed"
    /\ UNCHANGED <<p_tamper, p_pub, p_result, cvars, avars, xvars, dvars>>

ContentPages == 1..(Len(p_art[1].pages) - 1)

WithPage(art, i, page) == [art EXCEPT !.pages[i] = page]

\* After signing, the text of a content page is altered.
PdfTamperText ==
    /\ p_pc = "signed"
    /\ \E i \in ContentPages, t \in Texts :
          /\ t # p_art[1].pages[i].text
          /\ p_art' = Some(WithPage(p_art[1], i, [p_art[1].pages[i] EXCEPT !.text = t]))
    /\ p_tamper' = "text"
    /\ p_pc' = "tampered"
    /\ UNCHANGED <<p_doc, p_priv, p_pub, p_result, cvars, avars, xvars, dvars>>

\* After signing, bytes of a content page that are not extracted text (an
\* image, a drawing, a font) are altered.
PdfTamperOther ==
    /\ p_pc = "signed"
    /\ \E i \in ContentPages :
          p_art' = Some(WithPage(p_art[1], i, [p_art[1].pages[i] EXCEPT !.other = 1]))
    /\ p_tamper' = "other"
    /\ p_pc' = "tampered"
    /\ UNCHANGED <<p_doc, p_priv, p_pub, p_result, cvars, avars, xvars, dvars>>

\* After signing, the text of content page i+1 is moved to the end of page i.
PdfTamperRepaginate ==
    /\ p_pc = "signed"
    /\ \E i \in ContentPages :
          /\ i + 1 \in ContentPages
          /\ p_art[1].pages[i + 1].text # << >>
          /\ LET a == p_art[1].pages[i]
                 b == p_art[1].pages[i + 1]
             IN  p_art' = Some(WithPage(
                               WithPage(p_art[1], i, [a EXCEPT !.text = a.text \o b.text]),
                               i + 1, [b EXCEPT !.text = << >>]))
    /\ p_tamper' = "repaginate"
    /\ p_pc' = "tampered"
    /\ UNCHANGED <<p_doc, p_priv, p_pub, p_result, cvars, avars, xvars, dvars>>

\* What can be done to the signature descriptor of an artifact after signing:
\* the information dictionary, its entries, the signature page.
DescriptorTampers == {"no metadata", "no marker", "no signature", "signature type",
                      "not hex", "odd length", "short", "other value",
                      "author removed", "signature in text"}

\* The whole of signature_hex as text lines of LineLength characters.
RECURSIVE FullLines(_, _)
FullLines(signature_hex, i) ==
    IF i >= Len(signature_hex) THEN << >>
    ELSE PySlice(signature_hex, i, i + LineLength) \o <<"\n">>
         \o FullLines(signature_hex, i + LineLength)

\* Changes to the content of the artifact outside the signature block.
ContentTampers == {"text", "other", "repaginate"}

Without(meta, name) == [k \in DOMAIN meta \ {name} |-> meta[k]]

AlterDescriptor(art, kind) ==
    LET meta == art.meta[1]
        n    == Len(art.pages)
        hex  == Tail(meta["/Author"])
        WithAuthor(h) == [art EXCEPT !.meta = Some([meta EXCEPT !["/Author"] = <<Marker>> \o h])]
    IN  CASE kind = "no metadata" -> [art EXCEPT !.meta = None]
          [] kind = "no marker"   -> [art EXCEPT !.meta = Some(Without(meta, "/PAdES-Signature"))]
          [] kind = "no signature" ->
                [pages |-> [art.pages EXCEPT ![n].text = <<"Digital Signature", "\n">>],
                 meta  |-> Some(Without(meta, "/Author"))]
          [] kind = "author removed" ->
                [art EXCEPT !.meta = Some(Without(meta, "/Author"))]
          [] kind = "signature in text" ->
                LET text  == art.pages[n].text
                    label == MinOf(Positions(text, SigValueLabel))
                IN  [pages |-> [art.pages EXCEPT ![n].text =
                                  SubSeq(text, 1, label) \o <<"\n">> \o FullLines(hex, 0)],
                     meta  |-> Some(Without(meta, "/Author"))]
          [] kind = "signature type" ->
                [art EXCEPT !.meta = Some([meta EXCEPT !["/SignatureType"] = <<"ECDSA-SHA512">>])]
          [] kind = "not hex"     -> WithAuthor(<<"z">> \o Tail(hex))
          [] kind = "odd length"  -> WithAuthor(PyDropLast(hex, 1))
          [] kind = "short"       -> WithAuthor(PyDropLast(hex, 2))
          [] kind = "other value" ->
                WithAuthor(<<(IF hex[1] = "0" THEN "1" ELSE "0")>> \o Tail(hex))

\* After signing, the signature descriptor of the artifact is altered.
PdfTamperDescriptor ==
    /\ p_pc = "signed"
    /\ \E kind \in DescriptorTampers :
          /\ p_art' = Some(AlterDescriptor(p_art[1], kind))
          /\ p_tamper' = kind
    /\ p_pc' = "tampered"
    /\ UNCHANGED <<p_doc, p_priv, p_pub, p_result, cvars, avars, xvars, dvars>>

\* verify_pdf_signature(pdf_path, public_key_pem)
PdfVerify ==
    /\ p_pc \in {"signed", "tampered"}
    /\ \E pub \in PubInputs :
          /\ p_pub' = pub
          /\ p_result' = verify_pdf_signature(p_art[1], pub)
    /\ p_pc' = "verified"
    /\ UNCHANGED <<p_doc, p_priv, p_art, p_tamper, cvars, avars, xvars, dvars>>

PNext ==
    \/ PdfSign \/ PdfTamperText \/ PdfTamperOther \/ PdfTamperRepaginate
    \/ PdfTamperDescriptor \/ PdfVerify


\* ------------------------------------------- signature application: setup
Volumes == 1..NVolumes

\* The volumes a key generator run has written private_key.enc to: every
\* volume but the last, which is a plain storage volume.
KeyVolumes == Volumes \ {NVolumes}

\* The encrypted key the key generator left on volume v (PIN Pin1).
BlobOn(v) == encrypt_private_key(PrivPem(1), Pin1, RandAt(1), RandAt(v + 1))

\* The document the user signs, and the PINs the user may type.
InputDoc  == [pages |-> <<Page(<<"a">>, 0)>>, meta |-> None]
PinInputs == Pins \cup {<< >>}

RECURSIVE AsSeq(_)
\* the volumes of S in enumeration order
AsSeq(S) == IF S = {} THEN << >>
            ELSE LET m == MinOf(S) IN <<m>> \o AsSeq(S \ {m})

Range(s) == {s[i] : i \in 1..Len(s)}

\* get_removable_drives(): the list of drive paths the OS shows now.
get_removable_drives == AsSeq(mounted)

Connected(path, data) == [type |-> "usb_connected", path |-> path, data |-> data]
Disconnected          == [type |-> "usb_disconnected"]

\* check_drive_for_key(drive_path): the signals it emits.
check_drive_for_key(drive) ==
    IF drive \in mounted /\ keyfile[drive] # None
    THEN <<Connected(drive, keyfile[drive][1])>>
    ELSE << >>

RECURSIVE CheckAll(_)
\* for drive in drives: check_drive_for_key(drive)
CheckAll(drives) ==
    IF drives = << >> THEN << >>
    ELSE check_drive_for_key(drives[1]) \o CheckAll(Tail(drives))

\* run() 38-48: the signals of one cycle, connects first, then disconnects.
CycleSignals(previous, current) ==
    CheckAll(SelectSeq(current, LAMBDA d : d \notin Range(previous)))
    \o [i \in 1..Len(SelectSeq(previous, LAMBDA d : d \notin Range(current)))
          |-> Disconnected]

NoSign == [result |-> "none", gated |-> FALSE, decrypted |-> FALSE,
           wrote |-> FALSE, discDuring |-> FALSE]

AInit ==
    /\ mounted \in SUBSET Volumes
    /\ keyfile = [v \in Volumes |-> IF v \in KeyVolumes THEN Some(BlobOn(v)) ELSE None]
    /\ outfile = None
    /\ envChanges = 0
    /\ running = TRUE
    /\ connected_drives = AsSeq(mounted)
    /\ current_drives = << >>
    /\ m_pc = "not started"
    /\ queue = << >>
    /\ starts = 0
    /\ current_usb_path = None
    /\ encrypted_key_data = None
    /\ private_key = None
    /\ g_pc = "idle"
    /\ sd_pin = << >>
    /\ sd_key = << >>
    /\ sinceDisc = FALSE
    /\ lastSign = NoSign
    /\ stopped = FALSE
    /\ lateEvents = FALSE
    /\ cycles = << >>


\* --------------------------------------------------------- the environment
\* A removable volume is plugged in.
Mount ==
    /\ envChanges < MaxEnvChanges
    /\ \E v \in Volumes \ mounted : mounted' = mounted \cup {v}
    /\ envChanges' = envChanges + 1
    /\ UNCHANGED <<keyfile, outfile, mvars, gvars, hvars, cvars, pvars, xvars, dvars>>

\* A removable volume is pulled out.
Unmount ==
    /\ envChanges < MaxEnvChanges
    /\ \E v \in mounted : mounted' = mounted \ {v}
    /\ envChanges' = envChanges + 1
    /\ UNCHANGED <<keyfile, outfile, mvars, gvars, hvars, cvars, pvars, xvars, dvars>>

\* ------------------------------------------------------ the monitor thread
ThreadAlive == m_pc \notin {"not started", "finished"}
SignInFlight == g_pc \in {"decrypt", "sign"}

\* signal.emit(...) from the monitor thread: queued for the GUI thread.
Emit(signals) ==
    /\ queue' = queue \o signals
    /\ lateEvents' = (lateEvents \/ (stopped /\ signals # << >>))
    /\ lastSign' = IF SignInFlight /\ Disconnected \in Range(signals)
                   THEN [lastSign EXCEPT !.discDuring = TRUE]
                   ELSE lastSign

\* run() 32-33: the drives known at construction (or at the last cycle before
\* a stop) are checked for a key.
MonAnnounce ==
    /\ m_pc = "announce"
    /\ Emit(CheckAll(connected_drives))
    /\ m_pc' = "loop"
    /\ UNCHANGED <<running, connected_drives, current_drives, starts, evars, gvars,
                   sinceDisc, stopped, cycles, cvars, pvars, xvars, dvars>>

\* A loop that polls whatever the flag says: while True.
MonEnumerateIgnoresFlag ==
    /\ m_pc = "loop"
    /\ current_drives' = get_removable_drives
    /\ m_pc' = "diff"
    /\ UNCHANGED <<running, connected_drives, queue, starts, evars, gvars, hvars,
                   cvars, pvars, xvars, dvars>>

\* run() 35-36: while self.running: current_drives = get_removable_drives()
MonEnumerate ==
    /\ m_pc = "loop"
    /\ running
    /\ current_drives' = get_removable_drives
    /\ m_pc' = "diff"
    /\ UNCHANGED <<running, connected_drives, queue, starts, evars, gvars, hvars,
                   cvars, pvars, xvars, dvars>>

\* run() 38-51: connects for new drives, disconnects for removed ones, then
\* the snapshot is replaced and the thread sleeps a second before the next
\* cycle.
MonDiff ==
    /\ m_pc = "diff"
    /\ LET signals == CycleSignals(connected_drives, current_drives)
           entry   == [prev |-> connected_drives, cur |-> current_drives,
                       signals |-> signals]
           trail   == cycles \o <<entry>>
           keep    == Min(Len(trail), 2)
       IN  /\ Emit(signals)
           /\ cycles' = IF current_drives = connected_drives THEN cycles
                        ELSE SubSeq(trail, Len(trail) - keep + 1, Len(trail))
    /\ connected_drives' = current_drives
    /\ current_drives' = << >>
    /\ m_pc' = "loop"
    /\ UNCHANGED <<running, starts, evars, gvars, sinceDisc, stopped, cvars, pvars, xvars, dvars>>

\* run() 35: self.running is False, the loop and the thread end.
MonExit ==
    /\ m_pc = "loop"
    /\ ~running
    /\ m_pc' = "finished"
    /\ UNCHANGED <<running, connected_drives, current_drives, queue, starts, evars,
                   gvars, hvars, cvars, pvars, xvars, dvars>>

\* ---------------------------------------------------------- the GUI thread
\* start_monitoring(): self.running = True; self.start() (no effect on a
\* thread that is running).
StartMonitoring ==
    /\ g_pc = "idle"
    /\ starts < MaxStarts
    /\ starts' = starts + 1
    /\ running' = TRUE
    /\ m_pc' = IF ThreadAlive THEN m_pc ELSE "announce"
    /\ stopped' = FALSE
    /\ UNCHANGED <<connected_drives, current_drives, queue, evars, gvars,
                   sinceDisc, lastSign, lateEvents, cycles, cvars, pvars, xvars, dvars>>

\* stop_monitoring() 116: self.running = False, then the call blocks in wait().
StopMonitoring ==
    /\ g_pc = "idle"
    /\ running' = FALSE
    /\ g_pc' = "stopping"
    /\ UNCHANGED <<connected_drives, current_drives, m_pc, queue, starts, evars,
                   current_usb_path, encrypted_key_data, private_key, sd_pin, sd_key,
                   hvars, cvars, pvars, xvars, dvars>>

\* stop_monitoring() that does not wait for the thread.
StopMonitoringReturnsNoWait ==
    /\ g_pc = "stopping"
    /\ g_pc' = "idle"
    /\ stopped' = TRUE
    /\ UNCHANGED <<mvars, evars, current_usb_path, encrypted_key_data, private_key,
                   sd_pin, sd_key, sinceDisc, lastSign, lateEvents, cycles, cvars, pvars, xvars, dvars>>

\* stop_monitoring() 117-118: self.wait() returns once run() has returned (at
\* once for a thread that is not running), and the call returns.
StopMonitoringReturns ==
    /\ g_pc = "stopping"
    /\ ~ThreadAlive
    /\ g_pc' = "idle"
    /\ stopped' = TRUE
    /\ UNCHANGED <<mvars, evars, current_usb_path, encrypted_key_data, private_key,
                   sd_pin, sd_key, sinceDisc, lastSign, lateEvents, cycles, cvars, pvars, xvars, dvars>>

\* handle_usb_connected(usb_path, encrypted_key_data)
HandleUsbConnected ==
    /\ g_pc = "idle"
    /\ queue # << >>
    /\ Head(queue).type = "usb_connected"
    /\ current_usb_path' = Some(Head(queue).path)
    /\ encrypted_key_data' = Some(Head(queue).data)
    /\ queue' = Tail(queue)
    /\ sinceDisc' = FALSE
    /\ UNCHANGED <<private_key, g_pc, sd_pin, sd_key, running, connected_drives,
                   current_drives, m_pc, starts, evars, lastSign, stopped, lateEvents,
                   cycles, cvars, pvars, xvars, dvars>>

\* handle_usb_disconnected() that only updates the status labels.
HandleUsbDisconnectedKeepsKey ==
    /\ g_pc = "idle"
    /\ queue # << >>
    /\ Head(queue).type = "usb_disconnected"
    /\ queue' = Tail(queue)
    /\ sinceDisc' = TRUE
    /\ UNCHANGED <<current_usb_path, encrypted_key_data, private_key, g_pc, sd_pin,
                   sd_key, running, connected_drives, current_drives, m_pc, starts,
                   evars, lastSign, stopped, lateEvents, cycles, cvars, pvars, xvars, dvars>>

\* handle_usb_disconnected()
HandleUsbDisconnected ==
    /\ g_pc = "idle"
    /\ queue # << >>
    /\ Head(queue).type = "usb_disconnected"
    /\ current_usb_path' = None
    /\ encrypted_key_data' = None
    /\ private_key' = None
    /\ queue' = Tail(queue)
    /\ sinceDisc' = TRUE
    /\ UNCHANGED <<g_pc, sd_pin, sd_key, running, connected_drives, current_drives,
                   m_pc, starts, evars, lastSign, stopped, lateEvents, cycles,
                   cvars, pvars, xvars, dvars>>


\* The file sign_pdf wrote is kept as the arguments of the call that wrote it;
\* FileContent gives its content.
Written(input_basename, private_key_pem, pss) ==
    [input |-> input_basename, key |-> private_key_pem, pss |-> pss]
FileContent(w) == sign_pdf(InputDoc, w.input, w.key, w.pss).value

\* What the user has put in the form when Sign Document is clicked.
PdfPaths    == {"", "in.pdf"}
OutputPaths == {"", "out.pdf"}

\* sign_document() 204-205: not self.current_usb_path or not
\* self.encrypted_key_data (None and the empty value are both false).
UsbGateClosed ==
    \/ current_usb_path = None
    \/ encrypted_key_data = None
    \/ encrypted_key_data[1] = << >>

SignReturn(result) ==
    [result |-> result, gated |-> sinceDisc, decrypted |-> FALSE,
     wrote |-> FALSE, discDuring |-> FALSE]

\* sign_document() 187-214: the input checks and the USB check; the call
\* returns at the first that fails, else goes on to decrypt the key.
SignDocument ==
    /\ g_pc = "idle"
    /\ \E pdf_path \in PdfPaths :
          IF pdf_path = "" THEN
              /\ lastSign' = SignReturn("no pdf")
              /\ UNCHANGED <<g_pc, sd_pin>>
          ELSE \E output_path \in OutputPaths :
          IF output_path = "" THEN
              /\ lastSign' = SignReturn("no output")
              /\ UNCHANGED <<g_pc, sd_pin>>
          ELSE \E pin \in PinInputs :
          IF pin = << >> THEN
              /\ lastSign' = SignReturn("no pin")
              /\ UNCHANGED <<g_pc, sd_pin>>
          ELSE IF UsbGateClosed THEN
              /\ lastSign' = SignReturn("usb disconnected")
              /\ UNCHANGED <<g_pc, sd_pin>>
          ELSE
              /\ lastSign' = SignReturn("running")
              /\ g_pc' = "decrypt"
              /\ sd_pin' = pin
    /\ UNCHANGED <<current_usb_path, encrypted_key_data, private_key, sd_key, mvars,
                   evars, sinceDisc, stopped, lateEvents, cycles, cvars, pvars, xvars, dvars>>

\* sign_document() 217: private_key = decrypt_private_key(
\* self.encrypted_key_data, pin); an exception ends the call in the handler
\* of 233-240.
SignDecrypt ==
    /\ g_pc = "decrypt"
    /\ LET r == decrypt_private_key(encrypted_key_data[1], sd_pin)
       IN  IF r.ok
           THEN /\ sd_key' = r.value
                /\ g_pc' = "sign"
                /\ lastSign' = [lastSign EXCEPT !.decrypted = TRUE]
                /\ UNCHANGED sd_pin
           ELSE /\ sd_key' = << >>
                /\ sd_pin' = << >>
                /\ g_pc' = "idle"
                /\ lastSign' = [lastSign EXCEPT !.decrypted = TRUE, !.result = "error"]
    /\ UNCHANGED <<current_usb_path, encrypted_key_data, private_key, mvars, evars,
                   sinceDisc, stopped, lateEvents, cycles, cvars, pvars, xvars, dvars>>

\* sign_document() 224-240: sign_pdf(pdf_path, output_path, private_key)
\* writes the output file, or raises and the handler reports the error.
SignWrite ==
    /\ g_pc = "sign"
    /\ \E pss \in PssSalts :
          LET r == sign_pdf_signature(InputDoc, sd_key, pss)
          IN  IF r.ok
              THEN /\ outfile' = Some(Written("in.pdf", sd_key, pss))
                   /\ lastSign' = [lastSign EXCEPT !.wrote = TRUE, !.result = "success"]
              ELSE /\ outfile' = outfile
                   /\ lastSign' = [lastSign EXCEPT !.result = "error"]
    /\ g_pc' = "idle"
    /\ sd_key' = << >>
    /\ sd_pin' = << >>
    /\ UNCHANGED <<current_usb_path, encrypted_key_data, private_key, mvars,
                   mounted, keyfile, envChanges, sinceDisc, stopped, lateEvents,
                   cycles, cvars, pvars, xvars, dvars>>

\* main.py 23: usb_detector.start_monitoring(), once, as the application starts.
AppStartup == starts = 0 /\ StartMonitoring

\* The signature application in use: the monitor runs, the user signs.
ANext ==
    \/ Mount \/ Unmount
    \/ MonAnnounce \/ MonEnumerate \/ MonDiff
    \/ AppStartup
    \/ HandleUsbConnected \/ HandleUsbDisconnected
    \/ SignDocument \/ SignDecrypt \/ SignWrite

\* The monitor driven through its interface: started and stopped repeatedly
\* while volumes come and go and the GUI thread handles the signals.
MNext ==
    \/ Mount \/ Unmount
    \/ MonAnnounce \/ MonEnumerate \/ MonDiff \/ MonExit
    \/ StartMonitoring \/ StopMonitoring \/ StopMonitoringReturns
    \/ HandleUsbConnected \/ HandleUsbDisconnected


\* ------------------------------------------- files, forms and other signers
\* Paths are sequences of name parts: <<"doc", ".pdf">> is doc.pdf.
KeyPath    == <<"E:", "private_key.enc">>    \* os.path.join(usb_path, "private_key.enc")
PubPath    == <<"keys", "public_key.pem">>   \* os.path.join(directory, "public_key.pem")
DocLower   == <<"doc", ".pdf">>
DocUpper   == <<"DOC", ".PDF">>
DsOutput   == <<"signed_document", ".pdf">>  \* output_path = "signed_document.pdf"

\* File contents.  A key file holds bytes.  A PDF is kept as the original
\* document and the signing calls made on it since; PdfOf gives the document.
Bytes(data)  == [kind |-> "bytes", data |-> data]
OriginalPdf  == [kind |-> "pdf", marks |-> << >>]
Truncated    == [kind |-> "truncated"]       \* opened with 'wb', never written

Exists(path) == path \in DOMAIN fs
WriteFile(path, content) ==
    [q \in DOMAIN fs \cup {path} |-> IF q = path THEN content ELSE fs[q]]

\* str.replace(".pdf", "_signed.pdf") on a path
RECURSIVE ReplacePdf(_)
ReplacePdf(path) ==
    IF path = << >> THEN << >>
    ELSE (IF Head(path) = ".pdf" THEN <<"_signed", ".pdf">> ELSE <<Head(path)>>)
         \o ReplacePdf(Tail(path))

\* str.endswith(".pdf")
EndsWithPdf(path) == path # << >> /\ path[Len(path)] = ".pdf"

\* main_application: hashlib.sha256(pin.encode()).digest()
DS_derive_key_from_pin(pin) == Sha256(Encode(pin))

\* Crypto.Util.Padding.unpad(data, 16): ValueError unless the last byte p is
\* in 1..16 and the last p bytes all equal p.
Unpad(data) ==
    LET n == Len(data)
        p == IF n = 0 THEN 0 ELSE data[n]
    IN  IF n = 0 \/ n % BlockSize # 0 \/ p < 1 \/ p > BlockSize
           \/ \E i \in (n - p + 1)..n : data[i] # p
        THEN Raise("ValueError")
        ELSE Ok(SubSeq(data, 1, n - p))

\* A key file in the layout DocumentSigner.load_private_key reads:
\* iv || AES-CBC(sha256(pin), pkcs7(pem)).
DsBlob(pem, pin, iv) ==
    LET plen == PaddingLength(Len(pem))
    IN  iv \o CbcEncrypt(DS_derive_key_from_pin(pin), iv, pem \o Repeat(plen, plen))

\* DocumentSigner.load_private_key(usb_path, pin): the key it keeps, or the
\* exception raised.
DS_load_private_key(pin) ==
    IF ~Exists(KeyPath)
    THEN Raise("FileNotFoundError")
    ELSE LET data       == fs[KeyPath].data
             aes_key    == DS_derive_key_from_pin(pin)
             iv         == PySlice(data, 0, 16)
             ciphertext == PyFrom(data, 16)
         IN  IF Len(iv) # IvLen \/ Len(ciphertext) % BlockSize # 0
             THEN Raise("ValueError")
             ELSE LET private_key_data == Unpad(CbcDecrypt(aes_key, iv, ciphertext))
                  IN  IF ~private_key_data.ok
                      THEN private_key_data
                      ELSE load_pem_private_key(private_key_data.value)  \* RSA.import_key

\* pkcs1_15.new(private_key).sign(hash_value): deterministic.
Pkcs1Sign(k, data) == RsaPssSign(k, data, 0)

\* pdf_data = f.read(): the bytes of the file, text and everything else.
RECURSIVE FileData(_, _)
FileData(pages, n) ==
    IF n = 0 THEN << >>
    ELSE FileData(pages, n - 1) \o Utf8(pages[n].text) \o <<pages[n].other>>

\* DocumentSigner.sign_pdf(pdf_path, output_path): the document written.
DS_sign_pdf(input, k) ==
    LET hash_value == Sha256(FileData(input.pages, Len(input.pages)))
        signature  == Pkcs1Sign(k, hash_value)
    IN  [pages |-> input.pages,
         meta  |-> Some([name \in {"/Signature"} |-> Hex(signature)])]

SignMark(input_basename, k, pss) ==
    [by |-> "sign_pdf", input |-> input_basename, key |-> k, pss |-> pss]
DsMark(k) == [by |-> "DocumentSigner", key |-> k]

Marked(content, mark) == [content EXCEPT !.marks = Append(@, mark)]

\* The document a PDF file holds.
RECURSIVE PdfOf(_)
PdfOf(content) ==
    IF content.marks = << >> THEN InputDoc
    ELSE LET n    == Len(content.marks)
             m    == content.marks[n]
             prev == PdfOf([content EXCEPT !.marks = SubSeq(@, 1, n - 1)])
         IN  IF m.by = "sign_pdf"
             THEN sign_pdf(prev, m.input, PrivPem(m.key), m.pss).value
             ELSE DS_sign_pdf(prev, m.key)

\* The bytes of a file that were computed from a private key: the whole of a
\* key file, the latest embedded signature of a PDF.
KeyDerivedBytes(content) ==
    CASE content.kind = "bytes" -> content.data
      [] content.kind = "truncated" -> << >>
      [] content.kind = "pdf" ->
            IF content.marks = << >> THEN << >>
            ELSE LET n    == Len(content.marks)
                     m    == content.marks[n]
                     prev == PdfOf([content EXCEPT !.marks = SubSeq(@, 1, n - 1)])
                 IN  IF m.by = "sign_pdf"
                     THEN sign_pdf_signature(prev, PrivPem(m.key), m.pss).value
                     ELSE Pkcs1Sign(m.key, Sha256(FileData(prev.pages, Len(prev.pages))))

\* needle occurs in hay as a run of consecutive bytes
Contains(hay, needle) ==
    \E i \in 0..(Len(hay) - Len(needle)) :
        \A j \in 1..Len(needle) : hay[i + j] = needle[j]

\* Some private key's PEM bytes can be read in what the file holds.
HoldsKeyInClear(content) ==
    \E written \in {KeyDerivedBytes(content)}, c \in KeyIds :
        Contains(written, PrivPem(c))

PdfFiles == {q \in DOMAIN fs : fs[q].kind = "pdf"}

\* PDF files a signing call has written (or torn) so far.
WrittenPdfs == {q \in DOMAIN fs : fs[q].kind # "bytes" /\ fs[q] # OriginalPdf}

\* What the folder dialog of the key generator returns: "" on cancel, or the
\* directory picked.
PublicKeyDirs == {"", "keys"}

\* No generate_keys call has passed the input checks so far.
NoKeysWritten == [passed |-> FALSE, wrote |-> {}]

XInit ==
    /\ fs \in {[q \in {DocLower, DocUpper} |-> OriginalPdf],
               [q \in {DocLower, DocUpper, KeyPath} |->
                   IF q = KeyPath THEN Bytes(DsBlob(PrivPem(1), Pin1, RandAt(1)))
                   ELSE OriginalPdf]}
    /\ usb_path = None
    /\ kg_pin = << >>
    /\ kg_key = 0
    /\ kg_last = NoKeysWritten
    /\ kg_env = [attached |-> TRUE, writable |-> TRUE]
    /\ pdf_path_field = << >>
    /\ output_path_field = << >>
    /\ f_before = None
    /\ f_result = Raise("not called")
    /\ ds_private_key = None
    /\ ds_result = [call |-> "none", pin |-> << >>, result |-> Raise("not called")]

\* ---------------------------------------------------------- key generator
\* on_usb_connected(path)
OnUsbConnected ==
    /\ usb_path = None
    /\ usb_path' = Some("E:")
    /\ UNCHANGED <<fs, kg_pin, kg_key, kg_last, kg_env, pdf_path_field, output_path_field, f_before, f_result,
                   ds_private_key, ds_result, cvars, pvars, avars, dvars>>

\* on_usb_disconnected()
OnUsbDisconnected ==
    /\ usb_path # None
    /\ usb_path' = None
    /\ UNCHANGED <<fs, kg_pin, kg_key, kg_last, kg_env, pdf_path_field, output_path_field, f_before, f_result,
                   ds_private_key, ds_result, cvars, pvars, avars, dvars>>

\* generate_keys() that stores the private key as generated.
GenerateKeysUnencrypted ==
    /\ usb_path # None
    /\ \E pin \in Pins, k \in KeyIds :
          /\ fs' = [q \in DOMAIN fs \cup {KeyPath, PubPath} |->
                       IF q = KeyPath THEN Bytes(generate_rsa_keypair(k)[1])
                       ELSE IF q = PubPath THEN Bytes(generate_rsa_keypair(k)[2])
                       ELSE fs[q]]
          /\ kg_pin' = pin
          /\ kg_key' = k
    /\ kg_last' = [passed |-> TRUE, wrote |-> {KeyPath, PubPath}]
    /\ UNCHANGED <<usb_path, kg_env, pdf_path_field, output_path_field, f_before, f_result,
                   ds_private_key, ds_result, cvars, pvars, avars, dvars>>

\* generate_keys(): the input checks of 160-174, then the key pair is made,
\* the private key encrypted and written to the volume (188-191), the public
\* key saved (194-196).  An exception of either open() is caught at 205 and
\* shown: the first fails when the stick was pulled out and the disconnect
\* is not handled yet, the second when the directory cannot be written.
\* The two os.urandom draws are fixed here; CryptoEncrypt varies them.
GenerateKeys ==
    \E pin \in TypedPins, confirm_pin \in TypedPins, public_key_path \in PublicKeyDirs :
       /\ confirm_pin \in {pin, Pin2}
       /\ IF ~PinPolicy(pin) \/ pin # confirm_pin \/ usb_path = None
             \/ public_key_path = ""
          THEN UNCHANGED <<fs, kg_pin, kg_key, kg_last>>
          ELSE \E k \in KeyIds :
               LET pair == generate_rsa_keypair(k)
                   encrypted_private_key ==
                       encrypt_private_key(pair[1], pin, RandAt(1), RandAt(2))
               IN  IF ~kg_env.attached
                   THEN /\ UNCHANGED <<fs, kg_pin, kg_key>>
                        /\ kg_last' = [passed |-> TRUE, wrote |-> {}]
                   ELSE IF ~kg_env.writable
                   THEN /\ fs' = WriteFile(KeyPath, Bytes(encrypted_private_key))
                        /\ kg_pin' = pin
                        /\ kg_key' = k
                        /\ kg_last' = [passed |-> TRUE, wrote |-> {KeyPath}]
                   ELSE /\ fs' = [q \in DOMAIN fs \cup {KeyPath, PubPath} |->
                                     IF q = KeyPath THEN Bytes(encrypted_private_key)
                                     ELSE IF q = PubPath THEN Bytes(pair[2])
                                     ELSE fs[q]]
                        /\ kg_pin' = pin
                        /\ kg_key' = k
                        /\ kg_last' = [passed |-> TRUE, wrote |-> {KeyPath, PubPath}]
       /\ UNCHANGED <<usb_path, kg_env, pdf_path_field, output_path_field, f_before, f_result,
                      ds_private_key, ds_result, cvars, pvars, avars, dvars>>

\* The stick is pulled out or put back; the monitor has not reported it yet.
StickPulled ==
    /\ kg_env' = [kg_env EXCEPT !.attached = ~@]
    /\ UNCHANGED <<fs, usb_path, kg_pin, kg_key, kg_last, pdf_path_field, output_path_field,
                   f_before, f_result, ds_private_key, ds_result, cvars, pvars, avars, dvars>>

\* The directory picked for the public key is made read-only, or writable again.
DirectoryProtected ==
    /\ kg_env' = [kg_env EXCEPT !.writable = ~@]
    /\ UNCHANGED <<fs, usb_path, kg_pin, kg_key, kg_last, pdf_path_field, output_path_field,
                   f_before, f_result, ds_private_key, ds_result, cvars, pvars, avars, dvars>>

\* ------------------------------------------ signature application: the form
\* browse_pdf(): the dialog returns a PDF the user picked, or "" on cancel.
BrowsePdf ==
    /\ \E file_path \in PdfFiles \cup {<< >>} :
          IF file_path # << >>
          THEN /\ pdf_path_field' = file_path
               /\ output_path_field' = ReplacePdf(file_path)
          ELSE UNCHANGED <<pdf_path_field, output_path_field>>
    /\ UNCHANGED <<fs, usb_path, kg_pin, kg_key, kg_last, kg_env, f_before, f_result,
                   ds_private_key, ds_result, cvars, pvars, avars, dvars>>

\* browse_output(): the dialog returns a name the user typed, or the input
\* file picked again (the user agreeing to replace it), or "" on cancel.
BrowseOutput ==
    /\ \E file_path \in {pdf_path_field, <<"out">>, << >>} :
          IF file_path # << >>
          THEN output_path_field' = (IF EndsWithPdf(file_path) THEN file_path
                               ELSE file_path \o <<".pdf">>)
          ELSE UNCHANGED output_path_field
    /\ UNCHANGED <<fs, usb_path, kg_pin, kg_key, kg_last, kg_env, pdf_path_field, f_before, f_result,
                   ds_private_key, ds_result, cvars, pvars, avars, dvars>>

\* sign_document() 211-224 with the form filled in and the key file read from
\* the volume: decrypt_private_key, then sign_pdf(pdf_path_field, output_path_field,
\* private_key).  sign_pdf holds the input open while it opens the output with
\* 'wb'; when both are one file the pages still to be read are gone, and the
\* write ends with the artifact or with an exception and a truncated file.
\* The documents signed are ones not signed before, at most MaxSigns of them.
SignPdfFiles ==
    /\ pdf_path_field # << >> /\ output_path_field # << >>
    /\ Exists(pdf_path_field) /\ fs[pdf_path_field] = OriginalPdf
    /\ Cardinality(WrittenPdfs) < MaxSigns
    /\ Exists(KeyPath)
    /\ \E pin \in Pins, torn \in BOOLEAN :
          LET private_key_pem == decrypt_private_key(fs[KeyPath].data, pin)
              loaded == IF private_key_pem.ok
                        THEN load_pem_private_key(private_key_pem.value)
                        ELSE private_key_pem
          IN  /\ f_before' = Some([path |-> pdf_path_field, content |-> fs[pdf_path_field]])
              /\ IF ~loaded.ok
                 THEN /\ ~torn
                      /\ f_result' = loaded
                      /\ UNCHANGED fs
                 ELSE IF torn
                 THEN /\ output_path_field = pdf_path_field
                      /\ f_result' = Raise("PdfReadError")
                      /\ fs' = WriteFile(output_path_field, Truncated)
                 ELSE /\ f_result' = Ok(output_path_field)
                      /\ fs' = WriteFile(output_path_field,
                                   Marked(fs[pdf_path_field],
                                          SignMark(pdf_path_field, loaded.value, 1)))
    /\ UNCHANGED <<usb_path, kg_pin, kg_key, kg_last, kg_env, pdf_path_field, output_path_field,
                   ds_private_key, ds_result, cvars, pvars, avars, dvars>>

\* ------------------------------- main_application / auxiliary_application
\* DocumentSigner.load_private_key(usb_path, pin)
DsLoadPrivateKey ==
    /\ \E pin \in Pins :
          LET r == DS_load_private_key(pin)
          IN  /\ ds_result' = [call |-> "load_private_key", pin |-> pin, result |-> r]
              /\ ds_private_key' = IF r.ok THEN Some(r.value) ELSE ds_private_key
    /\ UNCHANGED <<fs, usb_path, kg_pin, kg_key, kg_last, kg_env, pdf_path_field, output_path_field, f_before,
                   f_result, cvars, pvars, avars, dvars>>

\* DocumentSigner.sign_pdf(pdf_path, "signed_document.pdf")
DsSignPdf ==
    /\ \E path \in PdfFiles :
          /\ fs[path] = OriginalPdf
          /\ Cardinality(WrittenPdfs) < MaxSigns
          /\ IF ds_private_key = None
             THEN /\ ds_result' = [call |-> "sign_pdf", pin |-> << >>,
                                   result |-> Raise("ValueError")]
                  /\ UNCHANGED fs
             ELSE /\ ds_result' = [call |-> "sign_pdf", pin |-> << >>,
                                   result |-> Ok(DsOutput)]
                  /\ fs' = WriteFile(DsOutput, Marked(fs[path], DsMark(ds_private_key[1])))
    /\ UNCHANGED <<usb_path, kg_pin, kg_key, kg_last, kg_env, pdf_path_field, output_path_field, f_before,
                   f_result, ds_private_key, cvars, pvars, avars, dvars>>

\* Key generation and the signing form of the signature application around
\* one file system.
FNext ==
    \/ OnUsbConnected \/ OnUsbDisconnected \/ GenerateKeys
    \/ BrowsePdf \/ BrowseOutput \/ SignPdfFiles

\* Key generation and the signers that read the key file: the signature
\* application and DocumentSigner.
KNext ==
    \/ OnUsbConnected \/ OnUsbDisconnected \/ GenerateKeys
    \/ DsLoadPrivateKey \/ DsSignPdf

\* The key generator with a stick that can be pulled out and a directory
\* that can be protected.
GNext ==
    \/ OnUsbConnected \/ OnUsbDisconnected \/ GenerateKeys
    \/ StickPulled \/ DirectoryProtected

\* ------------------------------------- USBDetector on each platform
\* The volumes the machine may have attached, in the order the OS lists them:
\* a stick with a key file, a plain stick, a write-protected stick, the
\* system disk, and a directory left under /Volumes that is no mount point.
DetOrder   == <<"KEYS", "DATA", "LOCKED", "Macintosh HD", "ghost">>
DetVolumes == {DetOrder[i] : i \in 1..Len(DetOrder)}
Systems    == {"Darwin", "Windows"}
Faults     == {"none", "enumeration", "key read"}

IsMount(v)     == v # "ghost"                 \* os.path.ismount(volume_path)
NameListed(v)  == v = "Macintosh HD"          \* any(x in volume for x in [...])
ReadOnly(v)    == v = "LOCKED"                \* st.f_flag & os.ST_RDONLY
PartitionOpts(v) ==                           \* partition.opts
    CASE v \in {"KEYS", "DATA"} -> {"rw", "removable"}
      [] v = "LOCKED"           -> {"ro", "removable"}
      [] v = "Macintosh HD"     -> {"rw", "fixed"}
      [] OTHER                  -> {}
HasKeyFile(v)  == v = "KEYS"                  \* os.path.exists(key_path)

\* get_removable_drives() 77-110 on a machine with the volumes attached: the
\* list returned and the status messages emitted, or the exception that
\* escapes.  On macOS a failing os.listdir is caught at 102 and the list is
\* empty; psutil.disk_partitions() at 106 is called outside any try.
get_removable_drives_on(system, attached, fault) ==
    IF system = "Darwin"
    THEN IF fault = "enumeration"
         THEN [ok |-> TRUE, drives |-> << >>, status |-> {"Error detecting drives"}]
         ELSE [ok |-> TRUE,
               drives |-> SelectSeq(DetOrder, LAMBDA v :
                              /\ v \in attached /\ IsMount(v)
                              /\ ~NameListed(v) /\ ~ReadOnly(v)),
               status |-> {}]
    ELSE IF fault = "enumeration"
         THEN [ok |-> FALSE, drives |-> << >>, status |-> {}]
         ELSE [ok |-> TRUE,
               drives |-> SelectSeq(DetOrder, LAMBDA v :
                              /\ v \in attached /\ IsMount(v)
                              /\ PartitionOpts(v) \cap {"removable", "cdrom"} # {}),
               status |-> {}]

\* for drive in drives: check_drive_for_key(drive) (53-68): the volumes
\* usb_connected is emitted for, and the status messages.
CheckDrives(drives, attached, fault) ==
    LET found == SelectSeq(drives, LAMBDA v : v \in attached /\ HasKeyFile(v))
    IN  IF found = << >> THEN [connects |-> << >>, status |-> {}]
        ELSE IF fault = "key read"
        THEN [connects |-> << >>, status |-> {"Error reading private key"}]
        ELSE [connects |-> found, status |-> {"Private key found"}]

NoCycle == [kind |-> "none", fault |-> "none", attached |-> {}, previous |-> << >>,
            current |-> << >>, connects |-> << >>, disconnects |-> 0, orphans |-> 0,
            status |-> {}]

\* d_open after usb_connected was emitted for the volumes of connects and the
\* volumes of removed left the snapshot.
Opened(open, connects, removed) ==
    [v \in DetVolumes |->
        IF v \in removed THEN 0
        ELSE IF v \in Range(connects) THEN Min(open[v] + 1, 2)
        ELSE open[v]]

\* USBDetector(): __init__ 20-25 takes the first snapshot.
DInit ==
    /\ d_system \in Systems
    /\ d_volumes \in SUBSET DetVolumes
    /\ d_fault = "none"
    /\ d_pc = "constructed"
    /\ d_connected_drives = get_removable_drives_on(d_system, d_volumes, "none").drives
    /\ d_last = NoCycle
    /\ d_open = [v \in DetVolumes |-> 0]
    /\ d_changes = 0
    /\ d_starts = 0

\* A volume is attached.
DPlug ==
    /\ d_changes < MaxEnvChanges
    /\ \E v \in DetVolumes \ d_volumes : d_volumes' = d_volumes \cup {v}
    /\ d_changes' = d_changes + 1
    /\ UNCHANGED <<d_system, d_fault, d_pc, d_connected_drives, d_last, d_open, d_starts,
                   cvars, pvars, avars, xvars>>

\* A volume is detached.
DUnplug ==
    /\ d_changes < MaxEnvChanges
    /\ \E v \in d_volumes : d_volumes' = d_volumes \ {v}
    /\ d_changes' = d_changes + 1
    /\ UNCHANGED <<d_system, d_fault, d_pc, d_connected_drives, d_last, d_open, d_starts,
                   cvars, pvars, avars, xvars>>

\* The OS starts or stops failing the enumeration call or the key file read.
DFault ==
    /\ \E f \in Faults \ {d_fault} : d_fault' = f
    /\ UNCHANGED <<d_system, d_volumes, d_pc, d_connected_drives, d_last, d_open,
                   d_changes, d_starts, cvars, pvars, avars, xvars>>

\* start_monitoring() 120-126 and the first statements of run() (32-33): the
\* drives of the snapshot are checked for a key.
DStart ==
    /\ d_pc \in {"constructed", "stopped"}
    /\ d_starts < MaxStarts
    /\ d_starts' = d_starts + 1
    /\ LET c == CheckDrives(d_connected_drives, d_volumes, d_fault)
       IN  /\ d_last' = [kind |-> "announce", fault |-> d_fault, attached |-> d_volumes,
                         previous |-> d_connected_drives, current |-> d_connected_drives,
                         connects |-> c.connects, disconnects |-> 0, orphans |-> 0,
                         status |-> c.status]
           /\ d_open' = Opened(d_open, c.connects, {})
    /\ d_pc' = "running"
    /\ UNCHANGED <<d_system, d_volumes, d_fault, d_connected_drives, d_changes,
                   cvars, pvars, avars, xvars>>

\* 38-39 (never applied: every enumerated drive counts as new).
NewDrivesAll(enumerated, snapshot) == enumerated

\* 38-39: new_drives = [drive for drive in current_drives
\*                      if drive not in self.connected_drives]
NewDrives(enumerated, snapshot) ==
    SelectSeq(enumerated, LAMBDA v : v \notin Range(snapshot))

\* 44-45: removed_drives = [drive for drive in self.connected_drives
\*                          if drive not in current_drives]
RemovedDrives(enumerated, snapshot) ==
    SelectSeq(snapshot, LAMBDA v : v \notin Range(enumerated))

\* One iteration of the loop of run() (36-51).  An exception that escapes
\* get_removable_drives ends run() and the thread.
DPoll ==
    /\ d_pc = "running"
    /\ LET e == get_removable_drives_on(d_system, d_volumes, d_fault)
           new     == NewDrives(e.drives, d_connected_drives)
           removed == RemovedDrives(e.drives, d_connected_drives)
           c == CheckDrives(new, d_volumes, d_fault)
       IN  IF ~e.ok
           THEN /\ d_pc' = "dead"
                /\ d_last' = [NoCycle EXCEPT !.kind = "cycle", !.fault = d_fault,
                                             !.attached = d_volumes,
                                             !.previous = d_connected_drives]
                /\ UNCHANGED <<d_connected_drives, d_open>>
           ELSE /\ d_pc' = "running"
                /\ d_last' = [kind |-> "cycle", fault |-> d_fault, attached |-> d_volumes,
                              previous |-> d_connected_drives, current |-> e.drives,
                              connects |-> c.connects, disconnects |-> Len(removed),
                              orphans |-> Len(SelectSeq(removed, LAMBDA v : d_open[v] = 0)),
                              status |-> e.status \cup c.status]
                /\ d_open' = Opened(d_open, c.connects, Range(removed))
                /\ d_connected_drives' = e.drives
    /\ UNCHANGED <<d_system, d_volumes, d_fault, d_changes, d_starts,
                   cvars, pvars, avars, xvars>>

\* stop_monitoring() 112-118: the loop ends at its next test and wait() returns.
DStop ==
    /\ d_pc = "running"
    /\ d_pc' = "stopped"
    /\ UNCHANGED <<d_system, d_volumes, d_fault, d_connected_drives, d_last, d_open,
                   d_changes, d_starts, cvars, pvars, avars, xvars>>

DNext == DPlug \/ DUnplug \/ DFault \/ DStart \/ DPoll \/ DStop

\* ------------------------------------------------------------------ specs
InitAll == CInit /\ PInit /\ AInit /\ XInit /\ DInit

\* The signature application on its own: no key file of another layout.
Init == InitAll /\ KeyPath \notin DOMAIN fs /\ d_system = "Darwin" /\ d_volumes = {}

\* The library functions called on their own: no volume plays a part.
InitLibrary == Init /\ mounted = {}

\* The programs around the file system; the volume may hold a key file
\* written for DocumentSigner.
InitFiles == InitAll /\ mounted = {} /\ d_system = "Darwin" /\ d_volumes = {}

\* The detector on its own, on either platform.
InitDetector == InitAll /\ mounted = {} /\ KeyPath \notin DOMAIN fs

\* The signature application: monitor thread, GUI thread, environment.
Spec        == Init /\ [][ANext]_vars
\* The monitor and its start / stop interface.
SpecMonitor == Init /\ [][MNext]_vars
\* The same with the scheduling the runtime gives: the monitor thread, once
\* started, keeps running its statements (the enumeration, the file read and
\* the one-second sleep all return), and a wait() whose thread has finished
\* returns.
MonitorFairness ==
    /\ WF_vars(MonAnnounce) /\ WF_vars(MonEnumerate) /\ WF_vars(MonDiff)
    /\ WF_vars(MonExit) /\ WF_vars(StopMonitoringReturns)
SpecMonitorFair == Init /\ [][MNext]_vars /\ MonitorFairness
\* Key custody: encrypt twice, decrypt.
SpecCrypto  == InitLibrary /\ [][CNext]_vars
\* Key files and the signing form.
SpecFiles   == InitLibrary /\ [][FNext]_vars
\* Key files and their readers.
SpecSigners == InitFiles /\ [][KNext]_vars
\* The key generator where each of its two writes can fail.
SpecKeygen == InitLibrary /\ [][GNext]_vars
\* The detector on each platform, with the failures the OS may answer with.
SpecDetector == InitDetector /\ [][DNext]_vars
\* Sign, alter, verify.
SpecPdf     == InitLibrary /\ [][PNext]_vars

\* ================================================================= claims
\* ------------------------------------------------- sign / verify (SpecPdf)
\* C1  Round trip: verifying the artifact sign_pdf produced for any document
\* with the public key of the signing pair returns true.
C1_RoundTrip ==
    (p_pc = "verified" /\ p_tamper = "none" /\ p_pub = PubPem(p_priv))
        => p_result = Ok(TRUE)

\* C1: a document without pages is signed, and verifying the artifact with
\* the matching key raises instead of returning true.
C1_ZeroPageArtifactRejected ==
    /\ p_pc = "verified" /\ p_tamper = "none" /\ p_pub = PubPem(p_priv)
    /\ p_doc.pages = << >>
    /\ p_result = Raise("ValueError: Invalid signed PDF format")

\* C2  Tamper detection: after any change to the content of a signed artifact
\* outside the signature block, verifying with the matching public key
\* returns false.
C2_TamperDetected ==
    (p_pc = "verified" /\ p_tamper \in ContentTampers /\ p_pub = PubPem(p_priv))
        => p_result = Ok(FALSE)

\* C2: content of a page that is not extracted text was altered after
\* signing, and verification with the matching key still returns true.
C2_AlteredContentStillVerifies ==
    /\ p_pc = "verified" /\ p_tamper = "other" /\ p_pub = PubPem(p_priv)
    /\ p_art[1].pages # Append(p_doc.pages, p_art[1].pages[Len(p_art[1].pages)])
    /\ p_result = Ok(TRUE)

\* C3  Key mismatch: verifying an unaltered signed artifact with the public
\* key of another pair returns false (and so never true).
C3_KeyMismatch ==
    (p_pc = "verified" /\ p_tamper = "none"
       /\ \E k \in KeyIds \ {p_priv} : p_pub = PubPem(k))
        => p_result = Ok(FALSE)

\* C3: the artifact of a document without pages, verified with the public key
\* of another pair: the call raises, it does not return false.
C3_MismatchRaises ==
    /\ p_pc = "verified" /\ p_tamper = "none"
    /\ \E k \in KeyIds \ {p_priv} : p_pub = PubPem(k)
    /\ ~p_result.ok

\* C15  verify raises a MalformedArtifact error, and does not return false,
\* whenever no embedded signature can be located: the artifact has no
\* is-signed marker, fewer than two pages, or no signature string in any
\* place the verifier reads.  The errors verify_pdf_signature raises for a
\* signature it cannot locate are the four ValueErrors of lines 150-228.
C15_MalformedRaises ==
    (/\ p_pc = "verified"
     /\ \/ p_tamper \in {"no metadata", "no marker", "no signature"}
        \/ Len(p_art[1].pages) < 2)
        => /\ ~p_result.ok
           /\ p_result.exc \in
                {"ValueError: This PDF does not contain a PAdES signature",
                 "ValueError: Invalid signed PDF format",
                 "ValueError: Signature value not found in the document",
                 "ValueError: Could not extract signature from the document"}

\* C15: the file verified has no information dictionary, so it carries no
\* is-signed marker, and the call ends with a TypeError.
C15_NoMetadataTypeError ==
    /\ p_pc = "verified" /\ p_tamper = "no metadata"
    /\ p_art[1].meta = None
    /\ p_result = Raise("TypeError")

\* C16  verify fails with UnsupportedAlgorithm whenever /SignatureType names
\* an algorithm the verifier does not implement; it never returns true for
\* such an artifact.
C16_UnsupportedAlgorithmRejected ==
    (/\ p_pc = "verified" /\ p_art[1].meta # None
     /\ "/SignatureType" \in DOMAIN p_art[1].meta[1]
     /\ p_art[1].meta[1]["/SignatureType"] # <<"RSA-SHA256">>)
        => p_result = Raise("UnsupportedAlgorithm")

\* C16: the artifact declares ECDSA-SHA512, and verification with the
\* matching key returns true.
C16_OtherAlgorithmVerifies ==
    /\ p_pc = "verified" /\ p_tamper = "signature type"
    /\ p_art[1].meta[1]["/SignatureType"] = <<"ECDSA-SHA512">>
    /\ p_pub = PubPem(p_priv)
    /\ p_result = Ok(TRUE)

\* C17  A failing cryptographic check is an ordinary negative result: when
\* the embedded signature value of an artifact of two or more pages was
\* altered (no longer hex, odd or short length, another value), verify
\* returns false and does not raise.
C17_BadSignatureReturnsFalse ==
    (/\ p_pc = "verified" /\ Len(p_art[1].pages) >= 2
     /\ p_tamper \in {"not hex", "odd length", "short", "other value"})
        => p_result = Ok(FALSE)

\* C17: the embedded signature value holds a character that is no hex digit,
\* and verify raises.
C17_NotHexRaises ==
    /\ p_pc = "verified" /\ Len(p_art[1].pages) >= 2
    /\ p_tamper = "not hex"
    /\ SignatureFromMetadata(p_art[1])[1] = "z"
    /\ p_result = Raise("ValueError: Failed to verify signature")

\* ------------------------------------------------- key custody (SpecCrypto)
\* C4  Wrong PIN: decrypting the blob of a private key with another PIN, or a
\* damaged blob with any PIN, fails with DecryptionFailure; decrypt never
\* returns bytes that are not a well-formed key and never lets another
\* exception escape.
C4_WrongPinFails ==
    (c_pc = "dec" /\ \E k \in KeyIds : c_key = PrivPem(k))
        => \A r \in {c_res1, c_res2} :
              IF r.ok
              THEN c_dpin = c_pin /\ c_damage = "none"
                   /\ load_pem_private_key(r.value).ok
              ELSE r.exc = "DecryptionFailure"

\* C4: the blob of a private key, undamaged, decrypted with another PIN:
\* the call returns bytes, and they are no key.
C4_WrongPinReturnsBytes ==
    /\ c_pc = "dec" /\ c_damage = "none" /\ c_dpin # c_pin
    /\ \E k \in KeyIds : c_key = PrivPem(k)
    /\ c_res1.ok /\ ~load_pem_private_key(c_res1.value).ok

\* C5  Encryption is non-deterministic but reversible: two encryptions of the
\* same key bytes under the same PIN give different blobs, and decrypting
\* either with that PIN gives back exactly the key bytes, whatever their
\* length (multiples of 16 included).
C5_FreshButReversible ==
    /\ c_pc \in {"two", "dec"} => c_blob1 # c_blob2
    /\ (c_pc = "dec" /\ c_dpin = c_pin /\ c_damage = "none")
          => c_res1 = Ok(c_key) /\ c_res2 = Ok(c_key)

\* C5: a key of exactly one block length has been encrypted twice and
\* decrypted with its PIN.
C5_BlockMultipleDecrypted ==
    /\ c_pc = "dec" /\ c_dpin = c_pin /\ c_damage = "none"
    /\ Len(c_key) = BlockSize
    /\ c_blob1 # c_blob2
    /\ c_res1 = Ok(c_key) /\ c_res2 = Ok(c_key)

\* The blobs encrypt_private_key has returned so far, in call order.
BlobsReturned ==
    IF c_pc = "start" THEN << >>
    ELSE IF c_pc = "one" THEN <<c_blob1>>
    ELSE <<c_blob1, c_blob2>>

\* C18  Blob layout: for a key of n >= 0 bytes encrypt_private_key returns
\* salt(16) || iv(16) || ciphertext; the ciphertext has 16 * (n div 16 + 1)
\* bytes and is the encryption, under the key derived from the PIN and that
\* salt, of the key bytes followed by p bytes of value p, 1 <= p <= 16; salt
\* and IV are drawn in that call and differ from every earlier draw.
C18_BlobLayout ==
    /\ \A b \in 1..Len(BlobsReturned) :
          LET blob   == BlobsReturned[b]
              n      == Len(c_key)
              salt   == PySlice(blob, 0, SaltLen)
              iv     == PySlice(blob, SaltLen, SaltLen + IvLen)
              ct     == PyFrom(blob, SaltLen + IvLen)
              padded == CbcDecrypt(KG_derive_key_from_pin(c_pin, salt)[1], iv, ct)
              p      == padded[Len(padded)]
          IN  /\ Len(salt) = 16 /\ Len(iv) = 16
              /\ Len(ct) = 16 * (n \div 16 + 1)
              /\ p \in 1..16
              /\ padded = c_key \o [i \in 1..p |-> p]
              /\ salt \in c_used /\ iv \in c_used /\ salt # iv
              /\ \A a \in 1..(b - 1) :
                    {salt, iv} \cap {PySlice(BlobsReturned[a], 0, SaltLen),
                                     PySlice(BlobsReturned[a], SaltLen, SaltLen + IvLen)} = {}
    /\ Cardinality(c_used) = 2 * Len(BlobsReturned)

\* C18: the empty key and a key of one block have each been encrypted twice:
\* the ciphertext is one resp. two blocks, the last of them all padding.
C18_FullPaddingBlock ==
    /\ c_pc = "two"
    /\ Len(c_key) \in {0, BlockSize}
    /\ Len(c_blob1) = SaltLen + IvLen + Len(c_key) + BlockSize
    /\ Len(c_blob2) = Len(c_blob1)

\* C20  Key derivation rejects PINs that fail policy: with a PIN shorter than
\* six characters or holding a non-digit, encrypt_private_key returns no
\* blob and decrypt_private_key fails with InvalidPinFormat.
C20_BadPinRejected ==
    /\ ~PinPolicy(c_pin) => BlobsReturned = << >>
    /\ (c_pc = "dec" /\ ~PinPolicy(c_dpin))
          => c_res1 = Raise("InvalidPinFormat") /\ c_res2 = Raise("InvalidPinFormat")

\* C20: a key was encrypted under the PIN "123" and decrypted again with it.
C20_ShortPinAccepted ==
    /\ c_pc = "dec" /\ c_damage = "none"
    /\ c_pin = ShortPin /\ c_dpin = ShortPin
    /\ Len(c_blob1) >= SaltLen + IvLen + BlockSize
    /\ c_res1 = Ok(c_key)

\* ------------------------------------------- signature application (Spec)
\* C6  Access gating: once handle_usb_disconnected has run and until the next
\* connect is handled, current_usb_path, encrypted_key_data and private_key
\* are None, and a sign_document call made then returns without decrypting a
\* key or writing the output file.
C6_AccessGated ==
    /\ sinceDisc => /\ current_usb_path = None
                    /\ encrypted_key_data = None
                    /\ private_key = None
                    /\ ~SignInFlight
    /\ lastSign.gated => /\ ~lastSign.decrypted
                         /\ ~lastSign.wrote
                         /\ lastSign.result \in {"no pdf", "no output", "no pin",
                                                 "usb disconnected"}

\* C6: after a key was loaded and its disconnect handled, sign_document was
\* called with a document, an output path and a PIN, and was turned away.
C6_SignRefusedAfterDisconnect ==
    /\ sinceDisc
    /\ lastSign.gated /\ lastSign.result = "usb disconnected"
    /\ outfile = None

\* C7  A disconnect emitted by the monitor while sign_document is in flight
\* makes that call fail: it does not complete and write the signed file.
C7_DisconnectFailsSigning ==
    lastSign.discDuring => (lastSign.result # "success" /\ ~lastSign.wrote)

\* C7: the key volume was removed and its disconnect emitted while the call
\* was in flight; the call went on with the blob it held and wrote the file.
C7_SignedWithStaleKey ==
    /\ lastSign.discDuring /\ lastSign.result = "success" /\ lastSign.wrote
    /\ outfile # None
    /\ g_pc = "idle"

\* ------------------------------------------------- the monitor (SpecMonitor)
\* C8  Monitor diffing: when the enumerations go {A}, {A,B}, {B}, the cycle
\* that sees B arrive emits connect(B) and nothing else, and the cycle that
\* sees A leave emits one disconnect and nothing else.
C8_MonitorDiffing ==
    \A A \in Volumes, B \in Volumes :
        (/\ A # B
         /\ Len(cycles) = 2
         /\ cycles[1].prev = <<A>> /\ cycles[1].cur = AsSeq({A, B})
         /\ cycles[2].prev = AsSeq({A, B}) /\ cycles[2].cur = <<B>>)
        => /\ Len(cycles[1].signals) = 1
           /\ cycles[1].signals[1].type = "usb_connected"
           /\ cycles[1].signals[1].path = B
           /\ cycles[2].signals = <<Disconnected>>

\* C8: the enumerations went {A}, {A,B}, {B} with no key file on B: the
\* first cycle emitted nothing, the second one disconnect.
C8_ArrivalUnannounced ==
    \E A \in Volumes, B \in Volumes :
        /\ A # B
        /\ Len(cycles) = 2
        /\ cycles[1] = [prev |-> <<A>>, cur |-> AsSeq({A, B}), signals |-> << >>]
        /\ cycles[2] = [prev |-> AsSeq({A, B}), cur |-> <<B>>,
                        signals |-> <<Disconnected>>]

\* C9  In every poll cycle each volume new in the enumeration yields exactly
\* one connect event with its path (and its key blob, if it holds one), and
\* each volume gone from it exactly one disconnect event.
C9_OneEventPerChange ==
    \A i \in 1..Len(cycles) :
        LET e    == cycles[i]
            new  == SelectSeq(e.cur,  LAMBDA d : d \notin Range(e.prev))
            gone == SelectSeq(e.prev, LAMBDA d : d \notin Range(e.cur))
            conn == SelectSeq(e.signals, LAMBDA x : x.type = "usb_connected")
            disc == SelectSeq(e.signals, LAMBDA x : x.type = "usb_disconnected")
        IN  /\ Len(conn) = Len(new)
            /\ \A j \in 1..Len(new) :
                  /\ conn[j].path = new[j]
                  /\ keyfile[new[j]] # None => conn[j].data = keyfile[new[j]][1]
            /\ Len(disc) = Len(gone)

\* C9: a cycle found a new volume that holds no key file and emitted no
\* event at all.
C9_NewVolumeNoEvent ==
    \E i \in 1..Len(cycles) :
        /\ \E d \in Range(cycles[i].cur) :
              d \notin Range(cycles[i].prev) /\ keyfile[d] = None
        /\ cycles[i].signals = << >>

\* C10  Stop is blocking: once stop_monitoring has returned and until
\* monitoring is started again, the monitor thread has left its loop, and it
\* emits no event.
C10_StopBlocks ==
    /\ stopped => ~ThreadAlive
    /\ ~lateEvents

\* C10: stop_monitoring returned after the thread had run; a volume has come
\* or gone since the last snapshot, and nothing is emitted for it.
C10_StoppedAndSilent ==
    /\ stopped /\ m_pc = "finished" /\ g_pc = "idle"
    /\ mounted # Range(connected_drives)
    /\ ~lateEvents

\* C11  Cooperative cancellation terminates: once a stop request has cleared
\* the running flag no further poll cycle is started, and the monitor thread
\* ends and the blocking stop call returns, whatever starts and stops came
\* before.
C11_StopTerminates ==
    /\ [][(m_pc = "loop" /\ m_pc' = "diff") => running]_vars
    /\ (g_pc = "stopping") ~> (g_pc = "idle" /\ stopped /\ ~ThreadAlive)

\* C11: the stop request came while a poll cycle was in flight, after
\* monitoring had been stopped and started again.
C11_StopDuringCycle ==
    /\ g_pc = "stopping" /\ ~running /\ m_pc = "diff"
    /\ starts = MaxStarts

\* ------------------------------------- files and the form (SpecFiles)
\* C12  Signing never overwrites the input document: when a signing call of
\* the form has ended, the input file holds what it held when the call began,
\* whether the output path was suggested by browse_pdf or chosen by the user.
C12_InputNotOverwritten ==
    f_before # None => fs[f_before[1].path] = f_before[1].content

\* C12: the user browsed to DOC.PDF, left the suggested output path as it
\* was, signed with the right PIN, and DOC.PDF is no longer the document.
C12_SuggestedOutputIsInput ==
    /\ f_before # None
    /\ f_before[1].path = DocUpper
    /\ f_before[1].content = OriginalPdf
    /\ f_result = Ok(ReplacePdf(DocUpper))
    /\ fs[DocUpper] # OriginalPdf

\* C13  The decrypted private key is never written to persistent storage
\* unencrypted: the only key files written are private_key.enc, which holds
\* salt || iv || ciphertext that decrypts under the PIN typed to the key
\* generator, and the PEM public key; no file, signed PDFs included, holds
\* the private key's PEM bytes.
C13_KeyNeverStoredInClear ==
    /\ \A q \in DOMAIN fs : fs[q].kind = "bytes" => q \in {KeyPath, PubPath}
    /\ \A q \in DOMAIN fs : ~HoldsKeyInClear(fs[q])
    /\ Exists(KeyPath) =>
           /\ Len(fs[KeyPath].data) =
                 SaltLen + IvLen + BlockSize * (Len(PrivPem(kg_key)) \div BlockSize + 1)
           /\ decrypt_private_key(fs[KeyPath].data, kg_pin) = Ok(PrivPem(kg_key))
    /\ Exists(PubPath) => fs[PubPath].data = PubPem(kg_key)

\* C13: keys were generated onto the volume and a document was signed with
\* them: the key file, the public key and a signed PDF are all on disk.
C13_KeysGeneratedAndUsed ==
    /\ Exists(KeyPath) /\ Exists(PubPath) /\ kg_key \in KeyIds
    /\ f_result.ok
    /\ \E q \in WrittenPdfs : fs[q].kind = "pdf" /\ fs[q].marks[1].key = kg_key

\* ------------------------------ key files and their readers (SpecSigners)
\* C14  Decrypted key material is discarded when the signing operation
\* returns: after DocumentSigner.sign_pdf has returned, with the signed file
\* or with an error, the DocumentSigner object holds no private key.
C14_KeyDiscardedAfterSigning ==
    ds_result.call = "sign_pdf" => ds_private_key = None

\* C14: DocumentSigner loaded the key, signed, wrote signed_document.pdf and
\* returned; its private_key attribute still holds the decrypted key.
C14_SignerKeepsKey ==
    /\ ds_result = [call |-> "sign_pdf", pin |-> << >>, result |-> Ok(DsOutput)]
    /\ Exists(DsOutput) /\ fs[DsOutput].marks = <<DsMark(1)>>
    /\ ds_private_key = Some(1)

\* C19  Every reader of private_key.enc parses the layout and derives the key
\* as the key generator did: the file generate_keys wrote decrypts to the
\* generated private key under the PIN typed, in the signature application
\* (decrypt_private_key) and in DocumentSigner (load_private_key).
C19_BlobReadByEverySigner ==
    kg_key \in KeyIds =>
        /\ decrypt_private_key(fs[KeyPath].data, kg_pin) = Ok(PrivPem(kg_key))
        /\ DS_load_private_key(kg_pin) = Ok(kg_key)

\* C19: the key generator wrote the key file, the signature application
\* decrypts it, and DocumentSigner.load_private_key called with the same PIN
\* has raised.
C19_DocumentSignerCannotLoad ==
    /\ kg_key \in KeyIds
    /\ decrypt_private_key(fs[KeyPath].data, kg_pin) = Ok(PrivPem(kg_key))
    /\ ds_result.call = "load_private_key" /\ ds_result.pin = kg_pin
    /\ ds_result.result = DS_load_private_key(kg_pin)
    /\ ~ds_result.result.ok

\* C21  Monitor errors degrade gracefully: when enumerating the volumes or
\* reading a key file fails during a poll cycle, the failure is reported as a
\* status message and the monitor is still alive afterwards (running, or
\* stopped by stop_monitoring), on every platform.
C21_ErrorsDegradeGracefully ==
    /\ d_pc # "dead"
    /\ (d_last.kind = "cycle" /\ d_last.fault = "enumeration")
          => "Error detecting drives" \in d_last.status
    /\ (/\ d_last.kind = "cycle" /\ d_last.fault = "key read"
        /\ \E v \in Range(d_last.current) \ Range(d_last.previous) :
               v \in d_last.attached /\ HasKeyFile(v))
          => "Error reading private key" \in d_last.status

\* C21: off macOS the enumeration failed during a poll cycle and the thread
\* ended with nothing reported.
C21_ThreadDiesOffDarwin ==
    /\ d_system = "Windows"
    /\ d_pc = "dead"
    /\ d_last.kind = "cycle" /\ d_last.fault = "enumeration"
    /\ d_last.status = {}

\* C22  get_removable_drives returns exactly the attached volumes that are
\* mounted, not on the exclusion list and writable, on every platform: after
\* every poll cycle whose enumeration did not fail, the list it returned is
\* that set.
C22_ExactlyEligibleVolumes ==
    (d_last.kind = "cycle" /\ d_last.fault # "enumeration")
      => Range(d_last.current) =
           {v \in d_last.attached : IsMount(v) /\ ~NameListed(v) /\ ~ReadOnly(v)}

\* C22: off macOS a poll cycle returned the write-protected stick.
C22_ReadOnlyVolumeReturned ==
    /\ d_system = "Windows"
    /\ d_last.kind = "cycle" /\ d_last.fault = "none"
    /\ "LOCKED" \in Range(d_last.current)

\* C26  In a poll cycle whose enumerated set equals the previous snapshot no
\* connect and no disconnect is emitted, and after every completed poll cycle
\* the stored snapshot is the enumerated set.
C26_UnchangedCycleIsSilent ==
    (d_last.kind = "cycle" /\ d_pc # "dead")
      => /\ d_connected_drives = d_last.current
         /\ Range(d_last.current) = Range(d_last.previous)
              => (d_last.connects = << >> /\ d_last.disconnects = 0)

\* C26: a poll cycle found the key stick where it already was.
C26_KeyStickStillThere ==
    /\ d_last.kind = "cycle" /\ d_pc = "running"
    /\ d_last.fault = "none"
    /\ "KEYS" \in Range(d_last.current)
    /\ d_last.current = d_last.previous
    /\ d_open["KEYS"] = 1

\* C28  Connect and disconnect alternate for each volume over the life of the
\* monitor, stop and start included: no volume that stayed in the snapshot is
\* announced a second time, and no disconnect is emitted for a volume that
\* was never announced.
C28_EventsAlternate ==
    /\ \A v \in DetVolumes : d_open[v] <= 1
    /\ d_last.orphans = 0

\* C28: the monitor was stopped and started again while the key stick stayed
\* in, and the stick was announced a second time.
C28_AnnouncedAgainAfterRestart ==
    /\ d_starts = 2
    /\ d_last.kind = "announce"
    /\ d_last.connects = <<"KEYS">>
    /\ d_open["KEYS"] = 2

\* C27  Session state follows key presence: whenever every emitted event has
\* been handled and the monitor is between two cycles, the session holds an
\* encrypted key blob exactly when a volume with a key file is in the
\* monitor's snapshot; removing another volume does not clear the blob of a
\* key volume that is still connected.
C27_BlobFollowsKeyPresence ==
    (queue = << >> /\ m_pc = "loop")
      => (encrypted_key_data # None
            <=> \E d \in Range(connected_drives) : keyfile[d] # None)

\* C27: the volume without a key was removed while the key volume stayed in
\* the snapshot; the disconnect was handled and the session holds no blob.
C27_OtherVolumeRemovedClearsBlob ==
    /\ queue = << >> /\ m_pc = "loop"
    /\ cycles # << >>
    /\ cycles[Len(cycles)].prev = <<1, NVolumes>>
    /\ cycles[Len(cycles)].cur = <<1>>
    /\ connected_drives = <<1>>
    /\ keyfile[1] # None
    /\ encrypted_key_data = None
    /\ current_usb_path = None

\* --------------------------------------- the embedded record (SpecPdf)
\* The artifact holds no signature in its structured fields: no page-level
\* /Author on the last page and no /Author in the information dictionary.
NoStructuredSignature(art) ==
    /\ art.meta # None
    /\ "/Author" \notin DOMAIN art.meta[1]
    /\ art.pages[Len(art.pages)].resAuthor = None

\* C23  verify takes the signature from the structured embedded record only
\* and never from the text of a page: an artifact whose structured signature
\* field is absent is not verified from its page text.
C23_NoFallbackToPageText ==
    (p_pc = "verified" /\ NoStructuredSignature(p_art[1]))
        => p_result # Ok(TRUE)

\* C23: the artifact has no /Author entry, its last page shows the whole
\* signature as text, and verification with the matching key returns true.
C23_VerifiedFromPageText ==
    /\ p_pc = "verified" /\ p_tamper = "signature in text"
    /\ NoStructuredSignature(p_art[1])
    /\ p_pub = PubPem(p_priv)
    /\ p_result = Ok(TRUE)

\* C24  The artifact as signed carries an embedded record with four fields:
\* the is-signed marker, the algorithm identifier, the signature in hex, and
\* the digest of the content before signing, stored verbatim.
C24_RecordHasFourFields ==
    (p_pc = "signed" /\ p_tamper = "none")
        => LET meta == p_art[1].meta[1]
               pdf_hash == Sha256(HashedContent(p_doc.pages, Len(p_doc.pages)))
           IN  /\ "/PAdES-Signature" \in DOMAIN meta
               /\ "/SignatureType" \in DOMAIN meta
               /\ "/Author" \in DOMAIN meta
               /\ \E k \in DOMAIN meta : meta[k] \in {Hex(pdf_hash), pdf_hash}

\* C24: the record of a signed two-page document has the marker, the file
\* name, the algorithm and the signature, and no entry for the digest.
C24_NoDigestField ==
    /\ p_pc = "signed" /\ p_tamper = "none"
    /\ Len(p_doc.pages) = MaxPages
    /\ DOMAIN p_art[1].meta[1] =
          {"/PAdES-Signature", "/SignatureDate", "/SignatureType", "/Author"}
    /\ p_art[1].meta[1]["/SignatureDate"] = <<"doc.pdf">>

\* C25  Page-count relation: for a document of n pages sign_pdf writes n + 1
\* pages, the last of them the signature page, and the digest
\* verify_pdf_signature computes over the pages before the last is the
\* digest sign_pdf computed over the n pages of the input.
C25_PageCountRelation ==
    (p_pc \in {"signed", "verified"} /\ p_tamper = "none")
        => LET art == p_art[1]
               n   == Len(p_doc.pages)
               total_pages == Len(art.pages)
           IN  /\ total_pages = n + 1
               /\ p_pc = "signed" =>
                      art.pages[total_pages] =
                        create_signature_page(
                          FromHex(Tail(art.meta[1]["/Author"])).value).pages[1]
               /\ \A i \in 1..n : art.pages[i] = p_doc.pages[i]
               /\ Sha256(HashedContent(art.pages, total_pages - 1))
                    = Sha256(HashedContent(p_doc.pages, n))

\* C25: a document of MaxPages pages with text was signed and verified with
\* the matching key.
C25_FullDocumentVerified ==
    /\ p_pc = "verified" /\ p_tamper = "none"
    /\ Len(p_doc.pages) = MaxPages
    /\ \A i \in 1..MaxPages : p_doc.pages[i].text # << >>
    /\ Len(p_art[1].pages) = MaxPages + 1
    /\ p_pub = PubPem(p_priv)
    /\ p_result = Ok(TRUE)

\* C29  Whichever place verify reads the signature from (the structured
\* fields or the text of the signature page), the hex string it extracts is
\* the whole signature in hex.
C29_SameSignatureEverywhere ==
    (p_pc = "signed" /\ p_tamper = "none")
        => LET art == p_art[1]
               fromText == SignatureFromText(art)
           IN  /\ FromHex(SignatureFromMetadata(art)).ok
               /\ Len(FromHex(SignatureFromMetadata(art)).value) = SigLen
               /\ fromText.ok
               /\ fromText.value = SignatureFromMetadata(art)

\* C29: the /Author entry was removed from a signed artifact and nothing
\* else; verify read the signature page and returned false for the
\* matching key.
C29_TextGivesShortSignature ==
    /\ p_pc = "verified" /\ p_tamper = "author removed"
    /\ Len(p_doc.pages) >= 1
    /\ Len(SignatureFromText(p_art[1]).value) = VisLimit
    /\ p_pub = PubPem(p_priv)
    /\ p_result = Ok(FALSE)

\* C30  generate_keys writes nothing when an input check fails; otherwise it
\* ends with both private_key.enc and public_key.pem of one key pair written,
\* or with neither: no call leaves a new encrypted private key without its
\* public key.
C30_KeyPairWrittenTogether ==
    /\ ~kg_last.passed => (~Exists(KeyPath) /\ ~Exists(PubPath))
    /\ kg_last.wrote \in {{}, {KeyPath, PubPath}}
    /\ Exists(KeyPath) =>
           /\ decrypt_private_key(fs[KeyPath].data, kg_pin) = Ok(PrivPem(kg_key))
           /\ Exists(PubPath)
           /\ fs[PubPath].data = PubPem(kg_key)

\* C30: the directory chosen for the public key cannot be written; the call
\* wrote the encrypted private key of a new pair and no public key.
C30_PrivateKeyWithoutPublicKey ==
    /\ kg_last = [passed |-> TRUE, wrote |-> {KeyPath}]
    /\ ~kg_env.writable
    /\ Exists(KeyPath)
    /\ decrypt_private_key(fs[KeyPath].data, kg_pin) = Ok(PrivPem(kg_key))
    /\ ~Exists(PubPath) \/ fs[PubPath].data # PubPem(kg_key)

=============================================================================
